---- MODULE Spec2Model ----
(***************************************************************************)
(* A model of the IRMatcher rewriting engine of src/src/IRMatch.h:         *)
(* MatcherState, the pattern structs (match / make / make_folded_const),   *)
(* the constant-fold kernels, the emitter (to_expr / to_special_expr) and  *)
(* the Rewriter.                                                           *)
(*                                                                         *)
(* Widths.  TLC's integers are 32 bits wide, so the 64-bit machine word of *)
(* halide_scalar_value_t cannot be held at full width.  Every source byte  *)
(* is modelled by UnitBits bits: a source type of b bits is Width(b) bits  *)
(* wide and the machine word is Width(64) bits wide.  The field `bits` of  *)
(* a type keeps its source value (8, 16, 32, 64), so tests such as         *)
(* `t.bits >= 32` read as in the source.  Signed shifts are two's          *)
(* complement, as every supported build computes them.  A signed sum,      *)
(* difference, product or negation overflows the 64-bit word only where    *)
(* the kernel has set OVERFLOW on the type; the payload is then wrapped    *)
(* here, and no property below reads the payload of a flagged fold of 32   *)
(* bits or more.                                                           *)
(*                                                                         *)
(* The specifications share the variables: Spec tries rules in any order   *)
(* on a Rewriter, FoldSpec folds every pair of integer constants once,     *)
(* MatchSpec matches the composite patterns once, EmitSpec makes binary    *)
(* nodes from scalar and vector operands, SugarSpec matches the patterns   *)
(* built from an int and a pattern, SlotSpec tries rules whose After reads *)
(* a constant bound by the predicate, ReuseSpec tries rules                *)
(* that place the same wildcards differently, ThreadSpec runs callers of   *)
(* the rewriter concurrently, ExprMatchSpec and SelectSpec apply           *)
(* expr_match and select_by_id to their inputs.                            *)
(***************************************************************************)
EXTENDS Integers, Sequences, FiniteSets, TLC

VARIABLES instance, result, state, counter, last, threads, call, ret

\* the fields of the Rewriter and the history of its last call
fields == <<instance, result, state, last>>

vars == <<instance, result, state, counter, last, threads, call, ret>>

(***************************************************************************)
(* Bounds of the model                                                     *)
(***************************************************************************)
\* model bits per source byte
UnitBits == 2
\* largest lane count of a vector in the input expressions
MaxLanes == 2
\* the sentinel counter is not advanced past this value
MaxCounter == 2
\* rule attempts made on one Rewriter
MaxAttempts == 2
\* concurrent callers of the rewriter
MaxThreads == 2
\* the most calls the concurrent callers make in all, and the most sentinels
MaxCalls == 3
MaxDraws == 3

(***************************************************************************)
(* Program constants                                                       *)
(***************************************************************************)
max_wild == 5
signed_integer_overflow == 32768
indeterminate_expression == 16384
special_values_mask == 49152

(***************************************************************************)
(* Machine arithmetic                                                      *)
(***************************************************************************)
Pow2(n) == 2 ^ n

\* width in model bits of a source type of `bits` bits
Width(bits) == IF bits < 8 THEN bits ELSE (bits \div 8) * UnitBits

\* width of the machine word (int64_t / uint64_t)
WordBits == Width(64)

\* the w-bit two's complement number with the same low w bits as x
ToSigned(x, w) == LET m == x % Pow2(w) IN IF m >= Pow2(w - 1) THEN m - Pow2(w) ELSE m

\* the unsigned w-bit number with the same low w bits as x
ToUnsigned(x, w) == x % Pow2(w)

\* the int64_t view and the uint64_t view of one machine word
AsI64(x) == ToSigned(x, WordBits)
AsU64(x) == ToUnsigned(x, WordBits)

\* x << n on a machine word, n < WordBits (bits shifted out are lost)
ShiftLeft(x, n) == (AsU64(x) % Pow2(WordBits - n)) * Pow2(n)

\* arithmetic x >> n on an int64_t
ShiftRightArith(x, n) == AsI64(x) \div Pow2(n)

\* logical x >> n on a uint64_t
ShiftRightLogical(x, n) == AsU64(x) \div Pow2(n)

\* a * b modulo 2^WordBits, by shift and add (never leaves the machine word)
RECURSIVE MulWord(_, _)
MulWord(a, b) ==
    IF b = 0 THEN 0
    ELSE LET h == MulWord(a, b \div 2)
         IN  (2 * h + (IF b % 2 = 1 THEN a ELSE 0)) % Pow2(WordBits)

\* bitwise or / and of two naturals
RECURSIVE BitOr(_, _)
BitOr(x, y) ==
    IF x = 0 THEN y
    ELSE IF y = 0 THEN x
    ELSE 2 * BitOr(x \div 2, y \div 2) + (IF x % 2 = 1 \/ y % 2 = 1 THEN 1 ELSE 0)

RECURSIVE BitAnd(_, _)
BitAnd(x, y) ==
    IF x = 0 \/ y = 0 THEN 0
    ELSE 2 * BitAnd(x \div 2, y \div 2) + (IF x % 2 = 1 /\ y % 2 = 1 THEN 1 ELSE 0)

\* smallest and largest value of a signed source type of `bits` bits
MinVal(bits) == -Pow2(Width(bits) - 1)
MaxVal(bits) == Pow2(Width(bits) - 1) - 1
UMaxVal(bits) == Pow2(Width(bits)) - 1

(***************************************************************************)
(* Types (halide_type_t): code, bits, lanes; the two top bits of lanes are *)
(* the flags of MatcherState.                                              *)
(***************************************************************************)
Type(code, bits, lanes) == [code |-> code, bits |-> bits, lanes |-> lanes]
IntT(bits) == Type("int", bits, 1)
UIntT(bits) == Type("uint", bits, 1)
FloatT(bits) == Type("float", bits, 1)
BoolT(lanes) == Type("uint", 1, lanes)
with_lanes(t, n) == [t EXCEPT !.lanes = n]

HasFlag(t, flag) == BitAnd(t.lanes, flag) # 0
IsPoisoned(t) == BitAnd(t.lanes, special_values_mask) # 0
\* a faulty to_special_expr: the flags stay in the type
KeepFlags(t) == t
ClearFlags(t) == [t EXCEPT !.lanes = t.lanes % indeterminate_expression]
is_vector(t) == t.lanes > 1

(***************************************************************************)
(* IR nodes.  A node is a record with its node_type, its type, its fields  *)
(* and `id`, the identity of the object (its address): two references are  *)
(* the same pointer iff their ids are equal.  Nodes of the input have ids  *)
(* >= 1 given by their place; a node allocated by a make has id 0.         *)
(***************************************************************************)
ImmKinds == {"IntImm", "UIntImm", "FloatImm"}
BinKinds == {"Add", "Sub", "Mul", "Div", "Mod", "Min", "Max", "And", "Or"}
CmpKinds == {"LT", "LE", "GT", "GE", "EQ", "NE"}

\* the undefined Expr()
NoExpr == [node_type |-> "Undefined", id |-> 0]

\* IntImm::make sign-extends the value to the type's bits, UIntImm::make masks it
IntImm_make(t, v) ==
    [node_type |-> "IntImm", type |-> t, value |-> ToSigned(v, Width(t.bits)), id |-> 0]
UIntImm_make(t, v) ==
    [node_type |-> "UIntImm", type |-> t, value |-> ToUnsigned(v, Width(t.bits)), id |-> 0]
FloatImm_make(t, v) ==
    [node_type |-> "FloatImm", type |-> t, value |-> v, id |-> 0]
Variable_make(t, name) ==
    [node_type |-> "Variable", type |-> t, name |-> name, id |-> 0]
Broadcast_make(e, lanes) ==
    [node_type |-> "Broadcast", type |-> with_lanes(e.type, lanes),
     value |-> e, lanes |-> lanes, id |-> 0]
\* Add::make, Sub::make, ...: the node has the type of its operands
Bin_make(op, a, b) ==
    [node_type |-> op, type |-> a.type, a |-> a, b |-> b, id |-> 0]
\* LT::make, ...: the node is a boolean of the operands' lane count
Cmp_make(op, a, b) ==
    [node_type |-> op, type |-> BoolT(a.type.lanes), a |-> a, b |-> b, id |-> 0]
Call_make(t, name, args, call_type) ==
    [node_type |-> "Call", type |-> t, name |-> name, args |-> args,
     call_type |-> call_type, id |-> 0]
\* Select::make: the node has the type of its true value
Select_make(c, t, f) ==
    [node_type |-> "Select", type |-> t.type, condition |-> c, true_value |-> t,
     false_value |-> f, id |-> 0]
\* Ramp::make: the vector base, base + stride, ... of `lanes` lanes
Ramp_make(base, stride, lanes) ==
    [node_type |-> "Ramp", type |-> with_lanes(base.type, lanes), base |-> base,
     stride |-> stride, lanes |-> lanes, id |-> 0]

\* make_const(t, v): the constant v of type t, a Broadcast when t is a vector
make_const(t, v) ==
    LET st == with_lanes(t, 1)
        imm == CASE t.code = "int" -> IntImm_make(st, v)
                 [] t.code = "uint" -> UIntImm_make(st, v)
                 [] OTHER -> FloatImm_make(st, v)
    IN  IF t.lanes > 1 THEN Broadcast_make(imm, t.lanes) ELSE imm

\* the node e placed at `slot` of the input: the ids below it follow the place
RECURSIVE Place(_, _)
Place(e, slot) ==
    CASE e.node_type \in BinKinds \cup CmpKinds ->
            [e EXCEPT !.id = slot, !.a = Place(e.a, 2 * slot), !.b = Place(e.b, 2 * slot + 1)]
      [] e.node_type = "Broadcast" ->
            [e EXCEPT !.id = slot, !.value = Place(e.value, 2 * slot)]
      [] e.node_type = "Select" ->
            [e EXCEPT !.id = slot, !.condition = Place(e.condition, 4 * slot),
                      !.true_value = Place(e.true_value, 4 * slot + 1),
                      !.false_value = Place(e.false_value, 4 * slot + 2)]
      [] e.node_type = "Ramp" ->
            [e EXCEPT !.id = slot, !.base = Place(e.base, 2 * slot),
                      !.stride = Place(e.stride, 2 * slot + 1)]
      [] e.node_type = "Call" ->
            [e EXCEPT !.id = slot,
                      !.args = [k \in DOMAIN e.args |-> Place(e.args[k], 4 * slot + k - 1)]]
      [] OTHER -> [e EXCEPT !.id = slot]

\* the node without the identities: its structure
RECURSIVE Structure(_)
Structure(e) ==
    CASE e.node_type \in BinKinds \cup CmpKinds ->
            [e EXCEPT !.id = 0, !.a = Structure(e.a), !.b = Structure(e.b)]
      [] e.node_type = "Broadcast" ->
            [e EXCEPT !.id = 0, !.value = Structure(e.value)]
      [] e.node_type = "Select" ->
            [e EXCEPT !.id = 0, !.condition = Structure(e.condition),
                      !.true_value = Structure(e.true_value),
                      !.false_value = Structure(e.false_value)]
      [] e.node_type = "Ramp" ->
            [e EXCEPT !.id = 0, !.base = Structure(e.base), !.stride = Structure(e.stride)]
      [] e.node_type = "Call" ->
            [e EXCEPT !.id = 0, !.args = [k \in DOMAIN e.args |-> Structure(e.args[k])]]
      [] OTHER -> [e EXCEPT !.id = 0]

(***************************************************************************)
(* The input expressions                                                   *)
(***************************************************************************)
SignedBits == {8, 16, 32, 64}
UnsignedBits == {1, 32}
FloatBits == {32}
VecLanes == 2 .. MaxLanes
LaneCounts == {1} \cup VecLanes

IntValues(bits) ==
    {v \in {MinVal(bits), -1, 0, 1, 3, 5, MaxVal(bits)} : MinVal(bits) <= v /\ v <= MaxVal(bits)}
UIntValues(bits) == {v \in {0, 1, 3, UMaxVal(bits)} : v <= UMaxVal(bits)}
FloatValues == {-1, 0, 2}

IntegerTypes == {IntT(b) : b \in SignedBits} \cup {UIntT(b) : b \in UnsignedBits}
ScalarTypes == IntegerTypes \cup {FloatT(b) : b \in FloatBits}

\* the scalar immediates of type t
Immediates(t) ==
    CASE t.code = "int" -> {IntImm_make(t, v) : v \in IntValues(t.bits)}
      [] t.code = "uint" -> {UIntImm_make(t, v) : v \in UIntValues(t.bits)}
      [] OTHER -> {FloatImm_make(t, v) : v \in FloatValues}

\* a few of them
Samples(t) ==
    CASE t.code = "int" -> {IntImm_make(t, v) : v \in {0, 3, MaxVal(t.bits)}}
      [] t.code = "uint" -> {UIntImm_make(t, v) : v \in {0, 3}}
      [] OTHER -> {FloatImm_make(t, v) : v \in {0, 2}}

\* the immediates in S with n lanes: themselves, or Broadcasts of them
Lanes(S, n) == IF n = 1 THEN S ELSE {Broadcast_make(c, n) : c \in S}

AllConstants == UNION {Lanes(Immediates(t), n) : t \in ScalarTypes, n \in LaneCounts}

ArithKinds == {"Add", "Sub", "Mul", "Div", "Mod", "Min", "Max"}

\* the inputs divide integers only
KindsOf(t) == IF t.code = "float" THEN ArithKinds \ {"Div", "Mod"} ELSE ArithKinds

\* op(a, b) over two constants of type t with n lanes, drawn from S
Pairs(S, t, n) ==
    {Bin_make(op, a, b) : a \in Lanes(S, n), b \in Lanes(S, n), op \in KindsOf(t)}

SampleTypes == {IntT(32), UIntT(32), FloatT(32)}

ConstantRoots == UNION {Pairs(Samples(t), t, n) : t \in SampleTypes, n \in LaneCounts}

\* operands that are not constants; the two comparisons differ only in the
\* type of their operands, the two sums only in a constant
Opaque ==
    {Variable_make(IntT(32), "a"), Variable_make(IntT(32), "b"),
     Bin_make("Add", Variable_make(IntT(32), "a"), IntImm_make(IntT(32), 1)),
     Bin_make("Add", Variable_make(IntT(32), "a"), IntImm_make(IntT(32), 3)),
     IntImm_make(IntT(32), 0), IntImm_make(IntT(32), 1),
     Cmp_make("LT", Variable_make(IntT(16), "a"), IntImm_make(IntT(16), 1)),
     Cmp_make("LT", Variable_make(IntT(32), "a"), IntImm_make(IntT(32), 1)),
     Cmp_make("LE", Variable_make(IntT(32), "a"), IntImm_make(IntT(32), 1))}

OpaqueKinds == {"Add", "Sub", "Min"}

OpaqueRoots ==
    UNION {{Bin_make(op, a, b) : op \in OpaqueKinds, b \in {y \in Opaque : y.type = a.type}} :
              a \in Opaque}

\* x op x whose two operands are one object
SharedRoots ==
    {[Place(Bin_make(op, a, a), 1) EXCEPT !.b = Place(a, 2)] : op \in OpaqueKinds, a \in Opaque}

\* a Broadcast of a whole scalar sum
BroadcastRoots ==
    {Broadcast_make(Bin_make("Add", a, b), n) :
        a \in Samples(IntT(32)), b \in Samples(IntT(32)), n \in VecLanes}

\* the inputs of the Rewriter, each node with the identity of its place
Roots ==
    {Place(e, 1) : e \in AllConstants \cup ConstantRoots \cup OpaqueRoots \cup BroadcastRoots}
        \cup SharedRoots

\* the inputs of the constant folder: op(a, b) over every pair of integer
\* constants of one type, and the integer constants alone
FoldRoots ==
    {Place(e, 1) :
        e \in UNION {Pairs(Immediates(t), t, n) \cup Lanes(Immediates(t), n) :
                        t \in IntegerTypes, n \in LaneCounts}}

(***************************************************************************)
(* MatcherState.  bound_const[i] is the machine word of the union (an      *)
(* integer is stored in the view it was written in, a double as its        *)
(* value); `written` is not a field of the struct: it records which slots  *)
(* have been assigned since construction, bit i for bound_const[i] and bit *)
(* i + 16 for bindings[i], the numbering of `binds`.                       *)
(***************************************************************************)
Slots == 0 .. (max_wild - 1)

NoType == Type("none", 0, 0)

\* MatcherState(): the constructor assigns nothing
MatcherState ==
    [bindings |-> [i \in Slots |-> NoExpr],
     bound_const |-> [i \in Slots |-> 0],
     bound_const_type |-> [i \in Slots |-> NoType],
     written |-> {}]

set_binding(st, i, n) ==
    [st EXCEPT !.bindings[i] = n, !.written = @ \cup {i + 16}]

get_binding(st, i) == st.bindings[i]

set_bound_const(st, i, v, t) ==
    [st EXCEPT !.bound_const[i] = v, !.bound_const_type[i] = t, !.written = @ \cup {i}]

get_bound_const(st, i) == [val |-> st.bound_const[i], ty |-> st.bound_const_type[i]]

\* reset() does nothing
reset(st) == st

(***************************************************************************)
(* Patterns                                                                *)
(***************************************************************************)
Wild(i) == [p |-> "Wild", i |-> i]
WildConstInt(i) == [p |-> "WildConstInt", i |-> i]
WildConstUInt(i) == [p |-> "WildConstUInt", i |-> i]
WildConstFloat(i) == [p |-> "WildConstFloat", i |-> i]
WildConst(i) == [p |-> "WildConst", i |-> i]
Const(v) == [p |-> "Const", val |-> v]
BinOp(op, a, b) == [p |-> "BinOp", op |-> op, a |-> a, b |-> b]
CmpOp(op, a, b) == [p |-> "CmpOp", op |-> op, a |-> a, b |-> b]
NotOp(a) == [p |-> "NotOp", a |-> a]
SelectOp(c, t, f) == [p |-> "SelectOp", c |-> c, t |-> t, f |-> f]
RampOp(a, b, lanes) == [p |-> "RampOp", a |-> a, b |-> b, lanes |-> lanes]
\* Intrin<Args...>: the name of the intrinsic and the tuple of argument patterns
Intrin(intrin, args) == [p |-> "Intrin", intrin |-> intrin, args |-> args]
BroadcastOp(a, lanes) == [p |-> "BroadcastOp", a |-> a, lanes |-> lanes]
NegateOp(a) == [p |-> "NegateOp", a |-> a]
FoldOp(a) == [p |-> "FoldOp", a |-> a]
BindOp(i, a) == [p |-> "BindOp", i |-> i, a |-> a]

ConstWildKinds == {"WildConstInt", "WildConstUInt", "WildConstFloat", "WildConst"}

\* the static member `binds` of a pattern, as the set of its bits
RECURSIVE binds(_)
binds(p) ==
    CASE p.p \in ConstWildKinds -> {p.i}
      [] p.p = "Wild" -> {p.i + 16}
      [] p.p = "Const" -> {}
      [] p.p \in {"BinOp", "CmpOp", "RampOp"} -> binds(p.a) \cup binds(p.b)
      [] p.p = "SelectOp" -> binds(p.c) \cup binds(p.t) \cup binds(p.f)
      [] p.p = "Intrin" -> UNION {binds(p.args[k]) : k \in DOMAIN p.args}
      [] p.p \in {"NotOp", "BroadcastOp", "NegateOp", "FoldOp"} -> binds(p.a)
      [] p.p = "BindOp" -> binds(p.a) \cup {p.i}

(***************************************************************************)
(* Equality of IR nodes                                                    *)
(***************************************************************************)
RECURSIVE equal(_, _), equal_helper(_, _)

\* equal_helper: the fields of two nodes of one node_type and one type agree
equal_helper(a, b) ==
    CASE a.node_type \in ImmKinds -> a.value = b.value
      [] a.node_type = "Variable" -> a.name = b.name
      [] a.node_type = "Broadcast" -> a.lanes = b.lanes /\ equal(a.value, b.value)
      [] a.node_type \in BinKinds \cup CmpKinds -> equal(a.a, b.a) /\ equal(a.b, b.b)
      [] a.node_type = "Select" ->
            /\ equal(a.condition, b.condition)
            /\ equal(a.true_value, b.true_value)
            /\ equal(a.false_value, b.false_value)
      [] a.node_type = "Ramp" ->
            a.lanes = b.lanes /\ equal(a.base, b.base) /\ equal(a.stride, b.stride)
      [] a.node_type = "Call" ->
            /\ a.name = b.name /\ a.call_type = b.call_type
            /\ DOMAIN a.args = DOMAIN b.args
            /\ \A k \in DOMAIN a.args : equal(a.args[k], b.args[k])
      [] OTHER -> FALSE

\* a faulty equal: the types are not compared
EqualIgnoringType(a, b) ==
    (a.id = b.id) \/ ((a.node_type = b.node_type) /\ equal_helper(a, b))

equal(a, b) ==
    (a.id = b.id) \/
        ((a.type = b.type) /\ (a.node_type = b.node_type) /\ equal_helper(a, b))

\* is_zero(e): a zero immediate, or a Broadcast of one
is_zero(e) ==
    LET op == IF e.node_type = "Broadcast" THEN e.value ELSE e
    IN  op.node_type \in ImmKinds /\ op.value = 0

(***************************************************************************)
(* match<bound>(e, state): [ok, state]                                     *)
(***************************************************************************)
\* a faulty peel: an outer Broadcast is kept
NoPeel(e) == e

\* the node under one outer Broadcast
Peel(e) == IF e.node_type = "Broadcast" THEN e.value ELSE e

\* the repeat branch of the constant wildcards compares the peeled node's type
WildConstRepeat(op, e, bc) == op.type = bc.ty /\ op.value = bc.val

\* WildConstInt / WildConstUInt / WildConstFloat ::match
WildConstKindMatch(kind, i, e, bound, st) ==
    LET op == Peel(e)
    IN  IF op.node_type # kind THEN [ok |-> FALSE, state |-> st]
        ELSE IF i \in bound
             THEN [ok |-> WildConstRepeat(op, e, get_bound_const(st, i)), state |-> st]
             ELSE [ok |-> TRUE, state |-> set_bound_const(st, i, op.value, e.type)]

\* WildConst::match
WildConstMatch(i, e, bound, st) ==
    LET op == Peel(e)
    IN  IF op.node_type \in ImmKinds
        THEN WildConstKindMatch(op.node_type, i, e, bound, st)
        ELSE [ok |-> FALSE, state |-> st]

\* Wild::match
WildMatch(i, e, bound, st) ==
    IF (i + 16) \in bound
    THEN [ok |-> equal(get_binding(st, i), e), state |-> st]
    ELSE [ok |-> TRUE, state |-> set_binding(st, i, e)]

\* a faulty Const::match: only an IntImm is taken
ConstMatchIntOnly(val, e) == Peel(e).node_type = "IntImm" /\ Peel(e).value = AsI64(val)

\* Const::match: val is an int, converted to the immediate's kind
ConstMatch(val, e) ==
    LET op == Peel(e)
    IN  CASE op.node_type = "IntImm" -> op.value = AsI64(val)
          [] op.node_type = "UIntImm" -> op.value = AsU64(val)
          [] op.node_type = "FloatImm" -> op.value = val
          [] OTHER -> FALSE

\* a faulty mask for the next sibling: the binds of the earlier one are left out
Unthreaded(bound, earlier) == bound

\* bound | bindings<A>::mask: the mask handed to the sibling after `earlier`
Threaded(bound, earlier) == bound \cup binds(earlier)

\* a failed match
Failed(st) == [ok |-> FALSE, state |-> st]

\* a faulty negation: the left operand of the Sub is not looked at
NegateAny(ma, op) == ma

\* NegateOp::match on a Sub: a.match<bound>(*op.b) && is_zero(op.a)
NegateMatched(ma, op) == [ok |-> ma.ok /\ is_zero(op.a), state |-> ma.state]

RECURSIVE match(_, _, _, _), match_args(_, _, _, _, _)

\* Intrin::match_args<i, bound>: the arguments from the i-th on, left to right
match_args(i, p, c, bound, st) ==
    IF i > Len(p.args) THEN [ok |-> TRUE, state |-> st]
    ELSE LET m == match(p.args[i], c.args[i], bound, st)
         IN  IF m.ok THEN match_args(i + 1, p, c, Threaded(bound, p.args[i]), m.state)
             ELSE m

match(p, e, bound, st) ==
    CASE p.p = "WildConstInt" -> WildConstKindMatch("IntImm", p.i, e, bound, st)
      [] p.p = "WildConstUInt" -> WildConstKindMatch("UIntImm", p.i, e, bound, st)
      [] p.p = "WildConstFloat" -> WildConstKindMatch("FloatImm", p.i, e, bound, st)
      [] p.p = "WildConst" -> WildConstMatch(p.i, e, bound, st)
      [] p.p = "Wild" -> WildMatch(p.i, e, bound, st)
      [] p.p = "Const" -> [ok |-> ConstMatch(p.val, e), state |-> st]
      [] p.p \in {"BinOp", "CmpOp"} ->
            IF e.node_type # p.op THEN [ok |-> FALSE, state |-> st]
            ELSE LET ma == match(p.a, e.a, bound, st)
                 IN  IF ma.ok THEN match(p.b, e.b, Threaded(bound, p.a), ma.state) ELSE ma
      [] p.p = "SelectOp" ->
            IF e.node_type # "Select" THEN Failed(st)
            ELSE LET mc == match(p.c, e.condition, bound, st)
                 IN  IF ~mc.ok THEN mc
                     ELSE LET mt == match(p.t, e.true_value, Threaded(bound, p.c), mc.state)
                          IN  IF ~mt.ok THEN mt
                              ELSE match(p.f, e.false_value,
                                         Threaded(Threaded(bound, p.c), p.t), mt.state)
      [] p.p = "RampOp" ->
            IF e.node_type # "Ramp" THEN Failed(st)
            ELSE LET ma == match(p.a, e.base, bound, st)
                 IN  IF ma.ok THEN match(p.b, e.stride, Threaded(bound, p.a), ma.state) ELSE ma
      [] p.p = "Intrin" ->
            IF e.node_type = "Call" /\ e.call_type = "Intrinsic" /\ e.name = p.intrin
            THEN match_args(1, p, e, bound, st)
            ELSE Failed(st)
      [] p.p = "NotOp" ->
            IF e.node_type # "Not" THEN [ok |-> FALSE, state |-> st]
            ELSE match(p.a, e.a, bound, st)
      [] p.p = "BroadcastOp" ->
            IF e.node_type = "Broadcast" /\ (p.lanes = -1 \/ p.lanes = e.lanes)
            THEN match(p.a, e.value, bound, st)
            ELSE [ok |-> FALSE, state |-> st]
      [] p.p = "NegateOp" ->
            IF e.node_type # "Sub" THEN [ok |-> FALSE, state |-> st]
            ELSE NegateMatched(match(p.a, e.b, bound, st), e)


(***************************************************************************)
(* Constant-fold kernels.  Each returns [val, ty]: the payload and the     *)
(* type, which the kernel may have flagged.                                *)
(***************************************************************************)
\* does the exact x fit a signed type of `bits` bits
FitsSigned(bits, x) == MinVal(bits) <= x /\ x <= MaxVal(bits)

add_would_overflow(bits, a, b) == ~FitsSigned(bits, a + b)
sub_would_overflow(bits, a, b) == ~FitsSigned(bits, a - b)

\* |a| * |b| is compared with the bound by a division, so that the product is
\* never formed when it is out of range
mul_would_overflow(bits, a, b) ==
    LET abs(x) == IF x < 0 THEN -x ELSE x
        limit == IF (a < 0) = (b < 0) THEN MaxVal(bits) ELSE -MinVal(bits)
    IN  a # 0 /\ b # 0 /\ abs(a) > limit \div abs(b)

\* div_imp, mod_imp on integers: round towards minus infinity
div_imp(a, b) ==
    LET abs(x) == IF x < 0 THEN -x ELSE x
        q == abs(a) \div abs(b)
        exact == q * abs(b) = abs(a)
    IN  IF (a < 0) = (b < 0) THEN q ELSE IF exact THEN -q ELSE -q - 1

mod_imp(a, b) == a - b * div_imp(a, b)

SetFlag(t, flag) == [t EXCEPT !.lanes = BitOr(@, flag)]

\* a faulty kernel return: the 64-bit result with its high bits kept
KeepHighBits(x, bits) == x

\* ((x) << dead_bits) >> dead_bits on an int64_t: drop the high bits, sign-extend back
SignExtendFrom(x, bits) ==
    LET dead_bits == WordBits - Width(bits)
    IN  ShiftRightArith(ShiftLeft(x, dead_bits), dead_bits)

\* x & (ones >> (64 - bits)) on a uint64_t
MaskTo(x, bits) ==
    BitAnd(AsU64(x), ShiftRightLogical(Pow2(WordBits) - 1, WordBits - Width(bits)))

\* a faulty flag: set for a type of any width
OverflowFlagAlways(t, would_overflow) ==
    IF would_overflow THEN SetFlag(t, signed_integer_overflow) ELSE t

\* t.lanes |= ((t.bits >= 32) && would_overflow) ? signed_integer_overflow : 0
OverflowFlag(t, would_overflow) ==
    IF (t.bits >= 32) /\ would_overflow THEN SetFlag(t, signed_integer_overflow) ELSE t

\* a faulty division by zero: 0 with no flag
DivByZeroUnflagged(t, b, q) == [val |-> IF b = 0 THEN 0 ELSE q, ty |-> t]

\* if (b == 0) { t.lanes |= indeterminate_expression; return 0; } else return q;
DivByZero(t, b, q) ==
    IF b = 0 THEN [val |-> 0, ty |-> SetFlag(t, indeterminate_expression)]
    ELSE [val |-> q, ty |-> t]

\* a faulty quotient: the native a / b and a % b, which round towards zero
NativeQuotient(op, a, b) ==
    LET abs(v) == IF v < 0 THEN -v ELSE v
        q == IF (a < 0) = (b < 0) THEN abs(a) \div abs(b) ELSE -(abs(a) \div abs(b))
    IN  IF op = "Div" THEN q ELSE a - b * q

\* return div_imp(a, b); return mod_imp(a, b); on int64_t, b not zero
Quotient(op, a, b) == AsI64(IF op = "Div" THEN div_imp(a, b) ELSE mod_imp(a, b))

\* constant_fold_bin_op<Op>(halide_type_t &, int64_t, int64_t)
constant_fold_bin_op_int(op, t, a, b) ==
    CASE op = "Add" ->
            [val |-> SignExtendFrom(a + b, t.bits),
             ty |-> OverflowFlag(t, add_would_overflow(t.bits, a, b))]
      [] op = "Sub" ->
            [val |-> SignExtendFrom(a - b, t.bits),
             ty |-> OverflowFlag(t, sub_would_overflow(t.bits, a, b))]
      [] op = "Mul" ->
            [val |-> SignExtendFrom(MulWord(AsU64(a), AsU64(b)), t.bits),
             ty |-> OverflowFlag(t, mul_would_overflow(t.bits, a, b))]
      [] op \in {"Div", "Mod"} -> DivByZero(t, b, IF b = 0 THEN 0 ELSE Quotient(op, a, b))
      [] op = "Min" -> [val |-> IF a < b THEN a ELSE b, ty |-> t]
      [] op = "Max" -> [val |-> IF a < b THEN b ELSE a, ty |-> t]
      [] op \in {"And", "Or"} -> [val |-> 0, ty |-> t]

\* constant_fold_bin_op<Op>(halide_type_t &, uint64_t, uint64_t)
constant_fold_bin_op_uint(op, t, a, b) ==
    CASE op = "Add" -> [val |-> MaskTo(a + b, t.bits), ty |-> t]
      [] op = "Sub" -> [val |-> MaskTo(a - b, t.bits), ty |-> t]
      [] op = "Mul" -> [val |-> MaskTo(MulWord(a, b), t.bits), ty |-> t]
      [] op = "Div" -> DivByZero(t, b, IF b = 0 THEN 0 ELSE a \div b)
      [] op = "Mod" -> DivByZero(t, b, IF b = 0 THEN 0 ELSE a % b)
      [] op = "Min" -> [val |-> IF a < b THEN a ELSE b, ty |-> t]
      [] op = "Max" -> [val |-> IF a < b THEN b ELSE a, ty |-> t]
      [] op = "Or" -> [val |-> BitOr(a, b), ty |-> t]
      [] op = "And" -> [val |-> BitAnd(a, b), ty |-> t]

\* constant_fold_bin_op<Op>(halide_type_t &, double, double); the inputs hold
\* no division of doubles
constant_fold_bin_op_double(op, t, a, b) ==
    CASE op = "Add" -> [val |-> a + b, ty |-> t]
      [] op = "Sub" -> [val |-> a - b, ty |-> t]
      [] op = "Mul" -> [val |-> a * b, ty |-> t]
      [] op = "Min" -> [val |-> IF a < b THEN a ELSE b, ty |-> t]
      [] op = "Max" -> [val |-> IF a < b THEN b ELSE a, ty |-> t]
      [] op \in {"And", "Or"} -> [val |-> 0, ty |-> t]

\* the switch on the type code that picks the kernel; any other code leaves val unset
constant_fold_bin_op(op, t, code, val, a, b) ==
    CASE code = "int" -> constant_fold_bin_op_int(op, t, AsI64(a), AsI64(b))
      [] code = "uint" -> constant_fold_bin_op_uint(op, t, AsU64(a), AsU64(b))
      [] code = "float" -> constant_fold_bin_op_double(op, t, a, b)
      [] OTHER -> [val |-> val, ty |-> t]

\* constant_fold_cmp_op<Op>: 1 or 0
Compare(op, a, b) ==
    LET r == CASE op = "LT" -> a < b
               [] op = "LE" -> a <= b
               [] op = "GT" -> a > b
               [] op = "GE" -> a >= b
               [] op = "EQ" -> a = b
               [] op = "NE" -> a # b
    IN  IF r THEN 1 ELSE 0

constant_fold_cmp_op(op, code, val, a, b) ==
    CASE code = "int" -> Compare(op, AsI64(a), AsI64(b))
      [] code = "uint" -> Compare(op, AsU64(a), AsU64(b))
      [] code = "float" -> Compare(op, a, b)
      [] OTHER -> val


(***************************************************************************)
(* make_folded_const(val, ty, state): [val, ty, state]                     *)
(***************************************************************************)
\* a faulty merge: the lanes of the right operand are dropped
LeftLanes(type_a, type_b) == type_a.lanes

\* type_a.lanes | type_b.lanes, flags included
MergeLanes(type_a, type_b) == BitOr(type_a.lanes, type_b.lanes)

\* a faulty fold of And and Or: the right operand is always folded
NeverShortCircuit(op, val_a) == FALSE

\* fold(0 && b) and fold(1 || b) stop at the left operand
ShortCircuit(op, val_a) ==
    (op = "And" /\ AsU64(val_a) = 0) \/ (op = "Or" /\ AsU64(val_a) = 1)

\* a faulty negation: no test for the most negative value
NegateUnchecked(f) == [val |-> SignExtendFrom(-AsI64(f.val), f.ty.bits), ty |-> f.ty]

\* NegateOp::make_folded_const on the folded operand [val, ty]
NegateFold(f) ==
    LET dead_bits == WordBits - Width(f.ty.bits)
    IN  CASE f.ty.code = "int" ->
                IF f.ty.bits >= 32 /\ AsI64(f.val) # 0
                      /\ ShiftLeft(AsI64(f.val), WordBits + 1 - Width(f.ty.bits)) = 0
                THEN [val |-> f.val, ty |-> SetFlag(f.ty, signed_integer_overflow)]
                ELSE [val |-> SignExtendFrom(-AsI64(f.val), f.ty.bits), ty |-> f.ty]
          [] f.ty.code = "uint" ->
                [val |-> ShiftRightLogical(ShiftLeft(-AsU64(f.val), dead_bits), dead_bits),
                 ty |-> f.ty]
          [] f.ty.code = "float" -> [val |-> -f.val, ty |-> f.ty]
          [] OTHER -> [val |-> f.val, ty |-> f.ty]

\* a faulty bind: the lanes of the operand's fold, flags included, are kept
BindKeepsLanes(fa, i) ==
    [val |-> 1, ty |-> Type("uint", 1, fa.ty.lanes),
     state |-> set_bound_const(fa.state, i, fa.val, fa.ty)]

\* BindOp<i>::make_folded_const on the fold fa of its operand: the fold is
\* stored in slot i, and the node evaluates to true
BindFold(fa, i) ==
    [val |-> 1, ty |-> Type("uint", 1, 1),
     state |-> set_bound_const(fa.state, i, fa.val, fa.ty)]

RECURSIVE make_folded_const(_, _)
make_folded_const(p, st) ==
    CASE p.p \in ConstWildKinds ->
            [val |-> get_bound_const(st, p.i).val, ty |-> get_bound_const(st, p.i).ty,
             state |-> st]
      [] p.p = "BinOp" /\ p.b.p = "Const" ->
            \* BinOpFolder<Op, A, Const>
            LET fa == make_folded_const(p.a, st)
                k == constant_fold_bin_op(p.op, fa.ty, fa.ty.code, fa.val, fa.val, p.b.val)
            IN  [val |-> k.val, ty |-> k.ty, state |-> fa.state]
      [] p.p = "BinOp" /\ p.b.p # "Const" /\ p.a.p = "Const" ->
            \* BinOpFolder<Op, Const, B>
            LET fb == make_folded_const(p.b, st)
                k == constant_fold_bin_op(p.op, fb.ty, fb.ty.code, fb.val, p.a.val, fb.val)
            IN  [val |-> k.val, ty |-> k.ty, state |-> fb.state]
      [] p.p = "BinOp" /\ p.b.p # "Const" /\ p.a.p # "Const" ->
            \* BinOpFolder<Op, A, B>
            LET fa == make_folded_const(p.a, st)
            IN  IF ShortCircuit(p.op, fa.val) THEN fa
                ELSE LET fb == make_folded_const(p.b, fa.state)
                         ty == [fa.ty EXCEPT !.lanes = MergeLanes(fa.ty, fb.ty)]
                         k == constant_fold_bin_op(p.op, ty, fa.ty.code, 0, fa.val, fb.val)
                     IN  [val |-> k.val, ty |-> k.ty, state |-> fb.state]
      [] p.p = "CmpOp" /\ p.b.p = "Const" ->
            \* CmpOpFolder<Op, A, Const>
            LET fa == make_folded_const(p.a, st)
            IN  [val |-> constant_fold_cmp_op(p.op, fa.ty.code, fa.val, fa.val, p.b.val),
                 ty |-> Type("uint", 1, fa.ty.lanes), state |-> fa.state]
      [] p.p = "CmpOp" /\ p.b.p # "Const" /\ p.a.p = "Const" ->
            \* CmpOpFolder<Op, Const, B>
            LET fb == make_folded_const(p.b, st)
            IN  [val |-> constant_fold_cmp_op(p.op, fb.ty.code, fb.val, p.a.val, fb.val),
                 ty |-> Type("uint", 1, fb.ty.lanes), state |-> fb.state]
      [] p.p = "CmpOp" /\ p.b.p # "Const" /\ p.a.p # "Const" ->
            \* CmpOpFolder<Op, A, B>
            LET fa == make_folded_const(p.a, st)
                fb == make_folded_const(p.b, fa.state)
            IN  [val |-> constant_fold_cmp_op(p.op, fa.ty.code, 0, fa.val, fb.val),
                 ty |-> Type("uint", 1, MergeLanes(fa.ty, fb.ty)),
                 state |-> fb.state]
      [] p.p = "NotOp" ->
            LET fa == make_folded_const(p.a, st)
            IN  [fa EXCEPT !.val = IF AsU64(fa.val) = 0 THEN 1 ELSE 0]
      [] p.p = "NegateOp" ->
            LET fa == make_folded_const(p.a, st)
                n == NegateFold(fa)
            IN  [val |-> n.val, ty |-> n.ty, state |-> fa.state]
      [] p.p = "BindOp" -> BindFold(make_folded_const(p.a, st), p.i)

(***************************************************************************)
(* The emitter.  A make returns [e, state, counter]: the node built, and   *)
(* the match state and the sentinel counter after it.                      *)
(***************************************************************************)
\* a faulty counter++: the value is read and not advanced
ReadCounter(ctr) == [id |-> ctr, counter |-> ctr]

\* counter++ on the std::atomic<int>: one indivisible read-modify-write that
\* yields the value before it; the int wraps
PostIncrement(ctr) == [id |-> ctr, counter |-> ToSigned(ctr + 1, Width(32))]

\* to_special_expr(ty): [e, counter], counter being the static std::atomic<int>
to_special_expr(ty, ctr) ==
    LET t == ClearFlags(ty)
        id == IntImm_make(IntT(32), PostIncrement(ctr).id)
    IN  IF HasFlag(ty, indeterminate_expression)
        THEN [e |-> Call_make(t, "indeterminate_expression", <<id>>, "Intrinsic"),
              counter |-> PostIncrement(ctr).counter]
        ELSE IF HasFlag(ty, signed_integer_overflow)
        THEN [e |-> Call_make(t, "signed_integer_overflow", <<id>>, "Intrinsic"),
              counter |-> PostIncrement(ctr).counter]
        ELSE [e |-> NoExpr, counter |-> ctr]

\* a faulty to_expr: the lanes are dropped
ScalarOnly(e, lanes) == e

\* if (lanes > 1) e = Broadcast::make(e, lanes)
BroadcastIfVector(e, lanes) == IF lanes > 1 THEN Broadcast_make(e, lanes) ELSE e

\* to_expr(val, ty, state): [e, counter]
to_expr(val, ty, ctr) ==
    IF IsPoisoned(ty) THEN to_special_expr(ty, ctr)
    ELSE LET scalar_type == with_lanes(ty, 1)
         IN  CASE ty.code = "int" ->
                    [e |-> BroadcastIfVector(IntImm_make(scalar_type, AsI64(val)), ty.lanes),
                     counter |-> ctr]
               [] ty.code = "uint" ->
                    [e |-> BroadcastIfVector(UIntImm_make(scalar_type, AsU64(val)), ty.lanes),
                     counter |-> ctr]
               [] ty.code = "float" ->
                    [e |-> BroadcastIfVector(FloatImm_make(scalar_type, val), ty.lanes),
                     counter |-> ctr]
               [] OTHER -> [e |-> NoExpr, counter |-> ctr]

\* a faulty make: only the right operand is ever broadcast
BroadcastRight(ea, eb) ==
    [a |-> ea,
     b |-> IF is_vector(ea.type) /\ ~is_vector(eb.type)
           THEN Broadcast_make(eb, ea.type.lanes) ELSE eb]

\* the two operands of a binary make, a scalar one broadcast to the other's lanes
MatchLanes(ea, eb) ==
    LET eb1 == IF is_vector(ea.type) /\ ~is_vector(eb.type)
               THEN Broadcast_make(eb, ea.type.lanes) ELSE eb
        ea1 == IF is_vector(eb1.type) /\ ~is_vector(ea.type)
               THEN Broadcast_make(ea, eb1.type.lanes) ELSE ea
    IN  [a |-> ea1, b |-> eb1]

Node_make(p, a, b) == IF p.p = "BinOp" THEN Bin_make(p.op, a, b) ELSE Cmp_make(p.op, a, b)

RECURSIVE make(_, _, _)
make(p, st, ctr) ==
    CASE p.p \in ConstWildKinds ->
            LET bc == get_bound_const(st, p.i)
                r == to_expr(bc.val, bc.ty, ctr)
            IN  [e |-> r.e, state |-> st, counter |-> r.counter]
      [] p.p = "Wild" -> [e |-> get_binding(st, p.i), state |-> st, counter |-> ctr]
      [] p.p \in {"BinOp", "CmpOp"} /\ p.b.p = "Const" ->
            LET ma == make(p.a, st, ctr)
            IN  [ma EXCEPT !.e = Node_make(p, ma.e, make_const(ma.e.type, p.b.val))]
      [] p.p \in {"BinOp", "CmpOp"} /\ p.b.p # "Const" /\ p.a.p = "Const" ->
            LET mb == make(p.b, st, ctr)
            IN  [mb EXCEPT !.e = Node_make(p, make_const(mb.e.type, p.a.val), mb.e)]
      [] p.p \in {"BinOp", "CmpOp"} /\ p.b.p # "Const" /\ p.a.p # "Const" ->
            LET ma == make(p.a, st, ctr)
                mb == make(p.b, ma.state, ma.counter)
                ops == MatchLanes(ma.e, mb.e)
            IN  [mb EXCEPT !.e = Node_make(p, ops.a, ops.b)]
      [] p.p = "BroadcastOp" ->
            LET ma == make(p.a, st, ctr)
            IN  [ma EXCEPT !.e = Broadcast_make(ma.e, p.lanes)]
      [] p.p = "NegateOp" ->
            LET ma == make(p.a, st, ctr)
            IN  [ma EXCEPT !.e = Bin_make("Sub", make_const(ma.e.type, 0), ma.e)]
      [] p.p = "FoldOp" ->
            LET f == make_folded_const(p.a, st)
                r == to_expr(f.val, f.ty, ctr)
            IN  [e |-> r.e, state |-> f.state, counter |-> r.counter]


(***************************************************************************)
(* The rules tried on the Rewriter                                         *)
(***************************************************************************)
x == Wild(0)
y == Wild(1)
c0 == WildConst(0)
c1 == WildConst(1)
c2 == WildConst(2)

NoPattern == [p |-> "None"]
NoFold == [val |-> 0, ty |-> NoType]

\* rewrite(before, after) with a pattern or with an Expr as `after`
Rule(before, after) == [before |-> before, after |-> after, pred |-> NoPattern]
\* rewrite(before, after, pred)
RuleIf(before, after, pred) == [before |-> before, after |-> after, pred |-> pred]

\* c0 op c1 -> fold(c0 op c1)
FoldRule(op) == Rule(BinOp(op, c0, c1), FoldOp(BinOp(op, c0, c1)))

\* c0 % c1 == 0, the test that c1 divides c0
Divides == CmpOp("EQ", BinOp("Mod", c0, c1), Const(0))

\* c0 / c1 -> fold(c1 != 0 && right) and c0 % c1 -> fold(c1 == 0 || right)
AndRule(right) ==
    Rule(BinOp("Div", c0, c1), FoldOp(BinOp("And", CmpOp("NE", c1, Const(0)), right)))
OrRule(right) ==
    Rule(BinOp("Mod", c0, c1), FoldOp(BinOp("Or", CmpOp("EQ", c1, Const(0)), right)))

\* pattern -> fold(pattern)
FoldRules ==
    {FoldRule(op) : op \in ArithKinds} \cup
    {Rule(c0, FoldOp(NegateOp(c0))),
     Rule(BinOp("Div", c0, c1), FoldOp(BinOp("Div", c0, Const(0)))),
     Rule(BinOp("Mod", c0, c1), FoldOp(BinOp("Mod", c0, Const(0)))),
     Rule(BinOp("Div", c0, c1), FoldOp(BinOp("Div", BinOp("Mul", c0, c0), c1))),
     AndRule(Divides), OrRule(Divides),
     AndRule(BindOp(2, Divides)), OrRule(BindOp(2, Divides))}

\* pattern -> fold(pattern) with folds nested in the operands of a fold
NestedFoldRules ==
    {Rule(BinOp("Sub", c0, c1),
          FoldOp(CmpOp("LT", BinOp("Mul", c0, c1), BinOp("Add", c0, c1)))),
     Rule(BinOp("Add", c0, c1),
          FoldOp(BinOp("Sub", BinOp("Div", c0, c1), BinOp("Mul", c0, c1)))),
     Rule(BinOp("Mul", c0, c1),
          FoldOp(BinOp("Min", BinOp("Add", c0, c1), c1))),
     Rule(BinOp("Mul", c0, c1),
          FoldOp(CmpOp("EQ", BinOp("Add", BinOp("Mul", c0, c1), c0),
                             BinOp("Mod", c1, Const(0))))),
     Rule(BinOp("Add", c0, c1),
          FoldOp(BinOp("Mul", BinOp("Add", c0, c1), Const(1)))),
     Rule(BinOp("Add", c0, c1),
          FoldOp(CmpOp("LT", Const(0), BinOp("Add", c0, c1))))}

\* c0 op c1 -> c2 and c0 op c1 -> fold(c2) when bind(c2, c0 op c1)
BindRules ==
    {RuleIf(BinOp(op, c0, c1), after, BindOp(2, BinOp(op, c0, c1))) :
        op \in {"Add", "Mul", "Div", "Min"}, after \in {c2, FoldOp(c2)}}

\* pattern -> pattern
PatternRules ==
    FoldRules \cup
    {Rule(BinOp("Add", x, Const(0)), x),
     Rule(BinOp("Min", x, x), x),
     Rule(BinOp("Add", x, x), BinOp("Mul", x, Const(2))),
     Rule(BinOp("Max", c0, c0), c0),
     Rule(BinOp("Min", WildConstInt(0), WildConstInt(0)), WildConstInt(0)),
     Rule(BinOp("Min", WildConstUInt(0), WildConstUInt(0)), WildConstUInt(0)),
     Rule(BinOp("Min", WildConstFloat(0), WildConstFloat(0)), WildConstFloat(0)),
     Rule(c0, c0)}

\* pattern -> Expr
ExprRules ==
    {Rule(BinOp("Sub", x, x), IntImm_make(IntT(32), 0))}

\* pattern -> pattern when predicate
PatternPredRules ==
    {RuleIf(BinOp("Div", c0, c1), FoldOp(BinOp("Div", c0, c1)),
            CmpOp("EQ", BinOp("Mod", c0, c1), Const(0))),
     RuleIf(BinOp("Mul", c0, c1), FoldOp(BinOp("Mul", c0, c1)),
            CmpOp("GE", BinOp("Mul", c0, c1), Const(0))),
     RuleIf(BinOp("Div", c0, c1), FoldOp(BinOp("Div", c0, c1)),
            BinOp("And", CmpOp("NE", c1, Const(0)),
                         CmpOp("EQ", BinOp("Mod", c0, c1), Const(0)))),
     RuleIf(BinOp("Mod", c0, c1), c0,
            BinOp("Or", CmpOp("EQ", c1, Const(0)),
                        BindOp(2, BinOp("Div", c0, c1))))}

\* pattern -> Expr when predicate
ExprPredRules ==
    {RuleIf(BinOp("Sub", c0, c1), IntImm_make(IntT(32), 0), CmpOp("EQ", c0, c1))}

(***************************************************************************)
(* Rewriter                                                                *)
(***************************************************************************)
\* a faulty evaluate_predicate: the flags are not tested
PredicateIgnoringFlags(f) == AsU64(f.val) # 0

\* evaluate_predicate on the folded predicate [val, ty]
evaluate_predicate(f) ==
    (AsU64(f.val) # 0) /\ (BitAnd(f.ty.lanes, special_values_mask) = 0)

\* a faulty outcome: a call that returns false leaves result undefined
OutcomeClearing(m, f, pass, res, mk) ==
    [matched |-> m.ok,
     pred |-> [val |-> f.val, ty |-> f.ty],
     fired |-> pass,
     result |-> IF pass THEN mk.e ELSE NoExpr,
     state |-> mk.state,
     counter |-> mk.counter]

\* the outcome of a call: the values it computed (m of the match, f of the
\* predicate), whether it returns true, and the fields of the Rewriter and the
\* counter after it, mk being what the call made
Outcome(m, f, pass, res, mk) ==
    [matched |-> m.ok,
     pred |-> [val |-> f.val, ty |-> f.ty],
     fired |-> pass,
     result |-> IF pass THEN mk.e ELSE res,
     state |-> mk.state,
     counter |-> mk.counter]

\* a faulty emitter: after.make(state) runs as soon as the pattern has matched
EmitOnMatch(r, is_expr, res, ctr, m, f, pass) ==
    Outcome(m, f, pass, res,
            IF m.ok /\ ~is_expr THEN make(r.after, f.state, ctr)
            ELSE [e |-> r.after, state |-> f.state, counter |-> ctr])

\* result = after.make(state), or result = after for an Expr, when the call
\* returns true
Emit(r, is_expr, res, ctr, m, f, pass) ==
    Outcome(m, f, pass, res,
            IF pass /\ ~is_expr THEN make(r.after, f.state, ctr)
            ELSE [e |-> r.after, state |-> f.state, counter |-> ctr])

\* && evaluate_predicate(pred, state), for the overloads that take a predicate
Test(r, is_expr, res, ctr, m, f) ==
    Emit(r, is_expr, res, ctr, m, f,
         m.ok /\ (r.pred # NoPattern => evaluate_predicate(f)))

\* the fold of the predicate, made once the pattern has matched
Matched(r, is_expr, res, ctr, m) ==
    Test(r, is_expr, res, ctr, m,
         IF m.ok /\ r.pred # NoPattern THEN make_folded_const(r.pred, m.state)
         ELSE [val |-> 0, ty |-> NoType, state |-> m.state])

\* a faulty first mask: the slots written by earlier calls count as bound
WrittenMask(st) == st.written

\* before.template match<0>: no slot is bound when the match starts
InitialMask(st) == {}

\* One call of Rewriter::operator() on a Rewriter with fields (e, res, st) while
\* the counter is ctr: reset, match from the empty mask, then the predicate if
\* there is one, then the result.
Apply(r, is_expr, e, res, st, ctr) ==
    Matched(r, is_expr, res, ctr, match(r.before, e, InitialMask(st), reset(st)))

\* the call on this Rewriter
Attempt(r, is_expr) == Apply(r, is_expr, instance, result, state, counter)

Record(r, kind, out) ==
    [n |-> last.n + 1, rule |-> r, kind |-> kind, matched |-> out.matched,
     pred |-> out.pred, fired |-> out.fired]

Call(r, kind, out) ==
    /\ last.n < MaxAttempts
    /\ out.counter <= MaxCounter
    /\ result' = out.result
    /\ state' = out.state
    /\ counter' = out.counter
    /\ last' = Record(r, kind, out)
    /\ UNCHANGED <<instance, threads, call, ret>>

\* bool operator()(Before &&before, After &&after)
RewritePattern == \E r \in PatternRules : Call(r, "pattern", Attempt(r, FALSE))

\* bool operator()(Before &&before, const Expr &after), and the Expr && overload
RewriteExpr == \E r \in ExprRules : Call(r, "expr", Attempt(r, TRUE))

\* bool operator()(Before &&before, After &&after, Predicate &&pred)
RewritePatternPred == \E r \in PatternPredRules : Call(r, "pattern_pred", Attempt(r, FALSE))

\* bool operator()(Before &&before, const Expr &after, Predicate &&pred), and Expr &&
RewriteExprPred == \E r \in ExprPredRules : Call(r, "expr_pred", Attempt(r, TRUE))

\* rewriter(e)(before, fold(...)): one fold rule tried on a Rewriter just constructed
FoldConstant ==
    \E r \in FoldRules : last.n = 0 /\ Call(r, "pattern", Attempt(r, FALSE))

\* rewriter(e)(before, fold(...)) with a fold of folds
FoldNested ==
    \E r \in NestedFoldRules : last.n = 0 /\ Call(r, "pattern", Attempt(r, FALSE))

\* rewriter(e)(before, after, bind(c2, ...)): the predicate binds what after reads
FoldBound ==
    \E r \in BindRules : last.n = 0 /\ Call(r, "pattern_pred", Attempt(r, FALSE))

NoRule == [before |-> NoPattern, after |-> NoPattern, pred |-> NoPattern]

\* the callers of the rewriter, each on its own thread
Threads == 1 .. MaxThreads

\* a caller between two calls: pc, the node its make is building (its
\* sentinels numbered from 0 in the order they are made) and the number of its
\* sentinels, the ids drawn for them so far, every id the thread has drawn,
\* the calls made, the last result
IdleThread ==
    [pc |-> "idle", making |-> NoExpr, sentinels |-> 0, drawn |-> <<>>, ids |-> <<>>,
     calls |-> 0, result |-> NoExpr]

NoThreads == [t \in Threads |-> IdleThread]

\* no call of expr_match or select_by_id
NoCall == [fn |-> "none"]

\* rewriter(e): the Rewriter just constructed on e; the counter starts at zero
Rewriter(e) ==
    /\ instance = e
    /\ result = NoExpr
    /\ state = MatcherState
    /\ counter = 0
    /\ last = [n |-> 0, rule |-> NoRule, kind |-> "none", matched |-> FALSE,
               pred |-> NoFold, fired |-> FALSE]
    /\ threads = NoThreads
    /\ call = NoCall
    /\ ret = NoExpr

Init == \E e \in Roots : Rewriter(e)

Next == RewritePattern \/ RewriteExpr \/ RewritePatternPred \/ RewriteExprPred

\* rules tried in any order on a Rewriter
Spec == Init /\ [][Next]_vars

FoldInit == \E e \in FoldRoots : Rewriter(e)

FoldNext == FoldConstant \/ FoldNested \/ FoldBound

\* the constant folder on every pair of integer constants
FoldSpec == FoldInit /\ [][FoldNext]_vars

(***************************************************************************)
(* Rules tried one after the other on one Rewriter, the same wildcard      *)
(* standing at different places of their patterns.                         *)
(***************************************************************************)
\* rules whose After and predicate read only wildcards of their Before
ReuseRules ==
    {Rule(BinOp("Add", x, y), BinOp("Sub", x, y)),
     Rule(BinOp("Add", y, x), x),
     Rule(BinOp("Add", x, x), BinOp("Mul", x, Const(2))),
     Rule(BinOp("Add", x, c0), BinOp("Add", c0, x)),
     Rule(BinOp("Add", c0, x), c0),
     Rule(BinOp("Mul", c0, c1), FoldOp(BinOp("Mul", c0, c1))),
     Rule(BinOp("Mul", c1, c0), FoldOp(BinOp("Div", c0, c1))),
     Rule(BinOp("Mul", c2, c2), c2)}

\* the same, with a predicate; one predicate binds c2
ReusePredRules ==
    {RuleIf(BinOp("Mul", c0, c1), c0, CmpOp("LT", c0, c1)),
     RuleIf(BinOp("Mul", c1, c0), c0, CmpOp("LT", c0, c1)),
     RuleIf(BinOp("Mul", c0, c1), c1,
            BinOp("Or", CmpOp("EQ", c1, Const(0)), BindOp(2, BinOp("Div", c0, c1))))}

\* l + r and l * r over two variables and three constants
ReuseRoots ==
    {Place(Bin_make(op, l, r), 1) :
        op \in {"Add", "Mul"},
        l \in {Variable_make(IntT(32), "a"), Variable_make(IntT(32), "b"),
               IntImm_make(IntT(32), 0), IntImm_make(IntT(32), 3),
               IntImm_make(IntT(32), MaxVal(32))},
        r \in {Variable_make(IntT(32), "a"), Variable_make(IntT(32), "b"),
               IntImm_make(IntT(32), 0), IntImm_make(IntT(32), 3),
               IntImm_make(IntT(32), MaxVal(32))}}

\* bool operator()(Before &&before, After &&after)
ReusePattern == \E r \in ReuseRules : Call(r, "pattern", Attempt(r, FALSE))

\* bool operator()(Before &&before, After &&after, Predicate &&pred)
ReusePred == \E r \in ReusePredRules : Call(r, "pattern_pred", Attempt(r, FALSE))

ReuseInit == \E e \in ReuseRoots : Rewriter(e)

ReuseNext == ReusePattern \/ ReusePred

\* rules tried in any order on one Rewriter, its match state never cleared
ReuseSpec == ReuseInit /\ [][ReuseNext]_vars

(***************************************************************************)
(* Rules whose After is a binary node over wildcards bound to scalars and  *)
(* to vectors.                                                             *)
(***************************************************************************)
EmitTypes == {IntT(32), UIntT(8)}

\* two variables and a constant of type t
Scalars(t) == {Variable_make(t, "a"), Variable_make(t, "b"), make_const(t, 3)}

\* the vectors of n lanes of type t: the broadcasts of the scalars and a ramp
Vectors(t, n) ==
    {Broadcast_make(s, n) : s \in Scalars(t)}
        \cup {Ramp_make(Variable_make(t, "a"), make_const(t, 3), n)}

\* l + r, both scalars or both vectors of one lane count
EmitRoots ==
    UNION {{Place(Bin_make("Add", l, r), 1) : l \in Scalars(t), r \in Scalars(t)} :
              t \in EmitTypes}
    \cup UNION {{Place(Bin_make("Add", l, r), 1) : l \in Vectors(t, n), r \in Vectors(t, n)} :
                  t \in EmitTypes, n \in VecLanes}

\* x binds an operand, or the scalar under a Broadcast; the right operand is
\* bound whole, as a node or as a constant
EmitBefores ==
    {BinOp("Add", l, r) : l \in {x, BroadcastOp(x, -1)}, r \in {y, c0}}

\* r is y or c0
BinaryAfters(r) ==
    {BinOp("Sub", x, r), BinOp("Sub", r, x), BinOp("Min", r, x),
     CmpOp("LT", x, r), CmpOp("LT", r, x),
     BinOp("Mul", x, x), BinOp("Mul", r, r),
     BinOp("Mul", BinOp("Sub", x, r), x), CmpOp("EQ", r, BinOp("Sub", r, x))}

LiteralAfters(r) ==
    {BinOp("Mul", x, Const(2)), BinOp("Mul", Const(2), x),
     BinOp("Mul", r, Const(2)), BinOp("Sub", Const(-1), r),
     CmpOp("LT", r, Const(2)), CmpOp("LT", Const(2), x),
     BinOp("Min", BinOp("Sub", x, r), Const(5))}

\* rewriter(e)(before, a op b): BinOp::make and CmpOp::make
EmitBinary ==
    \E b \in EmitBefores : \E a \in BinaryAfters(b.b) :
        last.n = 0 /\ Call(Rule(b, a), "pattern", Attempt(Rule(b, a), FALSE))

\* rewriter(e)(before, a op n) and (before, n op b): the makes with a Const
EmitLiteral ==
    \E b \in EmitBefores : \E a \in LiteralAfters(b.b) :
        last.n = 0 /\ Call(Rule(b, a), "pattern", Attempt(Rule(b, a), FALSE))

\* c0 and c1 bound to two constants as they stand, or one of them to the
\* scalar under a Broadcast, and folded together
MixedFoldRules ==
    {Rule(BinOp("Add", l, r), FoldOp(a)) :
        l \in {c0, BroadcastOp(c0, -1)}, r \in {c1, BroadcastOp(c1, -1)},
        a \in {BinOp("Add", c0, c1), BinOp("Min", c1, c0), CmpOp("LT", c0, c1),
               CmpOp("EQ", c1, c0)}}

\* rewriter(e)(before, fold(c0 op c1)): BinOpFolder and CmpOpFolder
\* ::make_folded_const on operands of one or of two lane counts
EmitFold ==
    \E r \in MixedFoldRules : last.n = 0 /\ Call(r, "pattern", Attempt(r, FALSE))

EmitInit == \E e \in EmitRoots : Rewriter(e)

EmitNext == EmitBinary \/ EmitLiteral \/ EmitFold

\* one rule with a binary After, made or folded, on each root
EmitSpec == EmitInit /\ [][EmitNext]_vars

(***************************************************************************)
(* The operators that build a binary pattern from a pattern and an int.    *)
(***************************************************************************)
\* operator+(int a, B b), -, *, /, %, min(int a, B b), max: {Const(a), b};
\* operator||(int b, A a) and operator&&(int b, A a): {a, Const(b)}
IntLeft(op, n, p) ==
    IF op \in {"Or", "And"} THEN BinOp(op, p, Const(n)) ELSE BinOp(op, Const(n), p)

\* operator+(A a, int b), ..., operator||(A a, int b): {a, Const(b)}
IntRight(op, p, n) == BinOp(op, p, Const(n))

\* l op r over a variable and two constants, int32 for the arithmetic
\* operations and bool for || and &&
SugarRoots ==
    {Place(Bin_make(op, l, r), 1) :
        op \in ArithKinds,
        l \in {Variable_make(IntT(32), "a"), IntImm_make(IntT(32), 0), IntImm_make(IntT(32), 1)},
        r \in {Variable_make(IntT(32), "a"), IntImm_make(IntT(32), 0), IntImm_make(IntT(32), 1)}}
    \cup
    {Place(Bin_make(op, l, r), 1) :
        op \in {"Or", "And"},
        l \in {Variable_make(BoolT(1), "a"), UIntImm_make(BoolT(1), 0), UIntImm_make(BoolT(1), 1)},
        r \in {Variable_make(BoolT(1), "a"), UIntImm_make(BoolT(1), 0), UIntImm_make(BoolT(1), 1)}}

\* before -> 0, the After being an Expr
ToZero(before) == Rule(before, IntImm_make(IntT(32), 0))

\* rewriter(e)(before, 0), before built by the operator c
Sweetened(c, r, out) ==
    /\ last.n = 0
    /\ result' = out.result
    /\ state' = out.state
    /\ counter' = out.counter
    /\ last' = Record(r, "expr", out)
    /\ call' = c
    /\ UNCHANGED <<instance, threads, ret>>

\* rewriter(e)(n op p, 0)
SugarLeft ==
    \E op \in BinKinds, n \in {0, 1}, p \in {x, c0} :
        Sweetened([fn |-> "int_left", op |-> op, n |-> n, p |-> p],
                  ToZero(IntLeft(op, n, p)), Attempt(ToZero(IntLeft(op, n, p)), TRUE))

\* rewriter(e)(p op n, 0)
SugarRight ==
    \E op \in BinKinds, n \in {0, 1}, p \in {x, c0} :
        Sweetened([fn |-> "int_right", op |-> op, n |-> n, p |-> p],
                  ToZero(IntRight(op, p, n)), Attempt(ToZero(IntRight(op, p, n)), TRUE))

SugarInit == \E e \in SugarRoots : Rewriter(e)

SugarNext == SugarLeft \/ SugarRight

\* one pattern built from an int and a pattern, matched on each root
SugarSpec == SugarInit /\ [][SugarNext]_vars

(***************************************************************************)
(* Rules whose After reads a constant that the predicate binds.  The       *)
(* constructor of MatcherState assigns nothing, so the slots of a new      *)
(* Rewriter hold whatever the memory held.                                 *)
(***************************************************************************)
\* what slot 2 may hold before anything is written to it
Uninitialised ==
    {[val |-> 0, ty |-> NoType], [val |-> 5, ty |-> IntT(32)], [val |-> 7, ty |-> UIntT(8)]}

\* c0 op c1 -> c2 or fold(c2 + c0) when a predicate that holds bind(c2, ...)
SlotRules ==
    {RuleIf(BinOp("Mod", c0, c1), c2,
            BinOp("Or", CmpOp("EQ", c1, Const(0)), BindOp(2, BinOp("Div", c0, c1)))),
     RuleIf(BinOp("Mul", c0, c1), c2,
            BinOp("And", CmpOp("NE", c1, Const(0)), BindOp(2, BinOp("Div", c0, c1)))),
     RuleIf(BinOp("Add", c0, c1), c2, BindOp(2, BinOp("Add", c0, c1))),
     RuleIf(BinOp("Sub", c0, c1), FoldOp(BinOp("Add", c2, c0)),
            BinOp("Or", BindOp(2, BinOp("Sub", c0, c1)), CmpOp("EQ", c1, Const(0)))),
     RuleIf(BinOp("Mod", c0, c1), FoldOp(BinOp("Add", c2, c1)),
            BinOp("And", BindOp(2, BinOp("Mul", c0, c1)), CmpOp("NE", c1, Const(0))))}

\* a op b over int32 constants
SlotRoots ==
    {Place(Bin_make(op, IntImm_make(IntT(32), a), IntImm_make(IntT(32), b)), 1) :
        op \in {"Mod", "Mul", "Add", "Sub"},
        a \in {0, 3, MaxVal(32)}, b \in {0, 1, 3}}

\* bool operator()(Before &&before, After &&after, Predicate &&pred)
RewriteBound == \E r \in SlotRules : Call(r, "pattern_pred", Attempt(r, FALSE))

\* Rewriter(e), slot 2 of its state holding g
SlotInit ==
    \E e \in SlotRoots, g \in Uninitialised :
        /\ instance = e
        /\ result = NoExpr
        /\ state = [MatcherState EXCEPT !.bound_const[2] = g.val,
                                        !.bound_const_type[2] = g.ty]
        /\ counter = 0
        /\ last = [n |-> 0, rule |-> NoRule, kind |-> "none", matched |-> FALSE,
                   pred |-> NoFold, fired |-> FALSE]
        /\ threads = NoThreads
        /\ call = NoCall
        /\ ret = NoExpr

SlotNext == RewriteBound

\* rules with a bind tried in any order on one Rewriter
SlotSpec == SlotInit /\ [][SlotNext]_vars

(***************************************************************************)
(* One match of a pattern built from Const or from the composite patterns, *)
(* on a Rewriter just constructed.                                         *)
(***************************************************************************)
\* the literals of the Const patterns
Literals == {-1, 0, 1, 3}

Zero == IntImm_make(IntT(32), 0)

\* x + n -> x
AddLiteralRules == {Rule(BinOp("Add", x, Const(n)), x) : n \in Literals}

\* n -> 0, the After being an Expr
LiteralRules == {Rule(Const(n), Zero) : n \in Literals}

\* y op k for every constant k, y being a variable of k's type, and y op b
LiteralRoots ==
    {Bin_make(op, Variable_make(k.type, "y"), k) : op \in {"Add", "Sub"}, k \in AllConstants}
        \cup {Bin_make("Add", Variable_make(IntT(32), "y"), Variable_make(IntT(32), "b")),
              Bin_make("Add", Variable_make(Type("int", 32, 2), "y"),
                       Broadcast_make(Variable_make(IntT(32), "b"), 2))}

\* the wildcards at the leaves of the composite patterns
LeafPatterns == {x, y, c0}

\* the operands of the composite nodes: a variable and two constants
Operands ==
    {Variable_make(IntT(32), "a"), IntImm_make(IntT(32), 1), IntImm_make(IntT(32), 3)}

IntrinNames == {"shift_left", "shift_right"}

\* lane counts of the ramp patterns: any (-1), or a given count
RampLanes == {-1} \cup (2 .. MaxLanes + 1)

\* the composite patterns over every arrangement of the wildcards
BinaryPatterns ==
    {BinOp("Add", l, r) : l \in LeafPatterns, r \in LeafPatterns}
        \cup {CmpOp("LT", l, r) : l \in LeafPatterns, r \in LeafPatterns}
        \cup {Intrin("shift_left", <<l, r>>) : l \in LeafPatterns, r \in LeafPatterns}
RampPatterns ==
    {RampOp(l, r, n) : l \in LeafPatterns, r \in LeafPatterns, n \in RampLanes}
SelectPatterns ==
    {SelectOp(c, t, f) : c \in LeafPatterns, t \in LeafPatterns, f \in LeafPatterns}
        \cup {SelectOp(CmpOp("LT", l, r), t, f) :
                  l \in LeafPatterns, r \in LeafPatterns, t \in LeafPatterns,
                  f \in LeafPatterns}
CompositePatterns == BinaryPatterns \cup RampPatterns \cup SelectPatterns

\* pattern -> 0, the After being an Expr
CompositeRules == {Rule(p, Zero) : p \in CompositePatterns}

\* the composite nodes over every arrangement of the operands
BinaryRoots ==
    {Bin_make(op, a, b) : op \in {"Add", "Sub"}, a \in Operands, b \in Operands}
        \cup {Cmp_make(op, a, b) : op \in {"LT", "LE"}, a \in Operands, b \in Operands}
        \cup {Call_make(IntT(32), name, <<a, b>>, ct) :
                  name \in IntrinNames, a \in Operands, b \in Operands,
                  ct \in {"Intrinsic", "Extern"}}
RampRoots ==
    {Ramp_make(a, b, n) : a \in Operands, b \in Operands, n \in VecLanes}
SelectRoots ==
    {Select_make(c, t, f) :
        c \in Operands \cup {Cmp_make("LT", a, b) : a \in Operands, b \in Operands},
        t \in Operands, f \in Operands}
CompositeRoots == BinaryRoots \cup RampRoots \cup SelectRoots

\* -l for each wildcard l, -(x + x) and -(x + y)
NegatePatterns ==
    {NegateOp(l) : l \in LeafPatterns}
        \cup {NegateOp(BinOp("Add", x, x)), NegateOp(BinOp("Add", x, y))}

\* -l -> 0, the After being an Expr
NegateRules == {Rule(p, Zero) : p \in NegatePatterns}

\* z - b and z + b, z a zero or not a zero, scalar and vector
NegateRoots ==
    {Bin_make(op, z, b) :
        op \in {"Sub", "Add"},
        z \in {Zero, IntImm_make(IntT(32), 1), Variable_make(IntT(32), "a")},
        b \in Operands \cup {Bin_make("Add", l, r) : l \in Operands, r \in Operands}}
        \cup {Bin_make("Sub", make_const(t, z), make_const(t, 3)) :
                  z \in {0, 1}, t \in {UIntT(32), FloatT(32), Type("int", 32, 2)}}

MatchRoots ==
    {Place(e, 1) : e \in AllConstants \cup LiteralRoots \cup CompositeRoots \cup NegateRoots}

\* rewriter(e)(before, after), after a pattern
MatchPattern ==
    \E r \in AddLiteralRules : last.n = 0 /\ Call(r, "pattern", Attempt(r, FALSE))

\* rewriter(e)(before, after), after an Expr
MatchExpr ==
    \E r \in LiteralRules \cup CompositeRules :
        last.n = 0 /\ Call(r, "expr", Attempt(r, TRUE))

\* rewriter(e)(-a, after)
MatchNegate ==
    \E r \in NegateRules : last.n = 0 /\ Call(r, "expr", Attempt(r, TRUE))

MatchInit == \E e \in MatchRoots : Rewriter(e)

MatchNext == MatchPattern \/ MatchExpr \/ MatchNegate

\* one match of each pattern on each root
MatchSpec == MatchInit /\ [][MatchNext]_vars

(***************************************************************************)
(* Concurrent callers.  Every caller has its own Rewriter and MatcherState *)
(* on its stack; the counter of to_special_expr is the one object they     *)
(* share.  The steps of a call that touch only the caller's own objects    *)
(* commute with every step of the other callers, so a call is taken in     *)
(* steps that end at its accesses to the counter: Begin is the call up to  *)
(* the first counter++ (what it matches and what it will make), each Draw  *)
(* is one counter++, Return is the rest of the call.                       *)
(***************************************************************************)
SentinelNames == {"indeterminate_expression", "signed_integer_overflow"}

\* the node e with the id ids[k + 1] in its k-th sentinel
RECURSIVE Renumber(_, _)
Renumber(e, ids) ==
    CASE e.node_type \in BinKinds \cup CmpKinds ->
            [e EXCEPT !.a = Renumber(e.a, ids), !.b = Renumber(e.b, ids)]
      [] e.node_type = "Broadcast" -> [e EXCEPT !.value = Renumber(e.value, ids)]
      [] e.node_type = "Call" /\ e.name \in SentinelNames ->
            [e EXCEPT !.args = <<IntImm_make(IntT(32), ids[e.args[1].value + 1])>>]
      [] OTHER -> e

\* the number of sentinels in node e
RECURSIVE Sentinels(_)
Sentinels(e) ==
    CASE e.node_type \in BinKinds \cup CmpKinds -> Sentinels(e.a) + Sentinels(e.b)
      [] e.node_type = "Broadcast" -> Sentinels(e.value)
      [] e.node_type = "Call" /\ e.name \in SentinelNames -> 1
      [] OTHER -> 0

\* c0 / c1 -> fold(c0 / c1) + fold(c0 % c1): two sentinels in one make
TwoFolds ==
    Rule(BinOp("Div", c0, c1),
         BinOp("Add", FoldOp(BinOp("Div", c0, c1)), FoldOp(BinOp("Mod", c0, c1))))

ThreadRules == {FoldRule("Add"), FoldRule("Div"), TwoFolds}

\* INT32_MAX + 3, 3 / 0 and 3 / 3
ThreadRoots ==
    {Place(Bin_make("Add", IntImm_make(IntT(32), MaxVal(32)), IntImm_make(IntT(32), 3)), 1),
     Place(Bin_make("Div", IntImm_make(IntT(32), 3), IntImm_make(IntT(32), 0)), 1),
     Place(Bin_make("Div", IntImm_make(IntT(32), 3), IntImm_make(IntT(32), 3)), 1)}

\* the thread t with some of its fields set
Thread(t, pc, making, sentinels, drawn) ==
    [threads[t] EXCEPT !.pc = pc, !.making = making, !.sentinels = sentinels,
                       !.drawn = drawn]

\* the sentinels the threads 1 .. t have begun to make and not yet drawn an id for
RECURSIVE Outstanding(_)
Outstanding(t) ==
    IF t = 0 THEN 0
    ELSE Outstanding(t - 1) + threads[t].sentinels - Len(threads[t].drawn)

\* rewriter(e)(before, after) up to its first counter++: out is the call made
\* alone from counter 0, which numbers its sentinels in the order of the make
Begins(t, out) ==
    /\ counter + Outstanding(MaxThreads) + Sentinels(out.result) <= MaxDraws
    /\ threads' = [threads EXCEPT ![t] =
            [Thread(t, IF out.fired THEN "make" ELSE "idle", out.result,
                    Sentinels(out.result), <<>>)
                EXCEPT !.calls = @ + 1]]

\* the calls the threads 1 .. t have made
RECURSIVE Calls(_)
Calls(t) == IF t = 0 THEN 0 ELSE Calls(t - 1) + threads[t].calls

Begin(t) ==
    /\ threads[t].pc = "idle"
    /\ Calls(MaxThreads) < MaxCalls
    /\ \E e \in ThreadRoots, r \in ThreadRules :
            Begins(t, Apply(r, FALSE, e, NoExpr, MatcherState, 0))
    /\ UNCHANGED <<fields, counter, call, ret>>

\* one counter++ of to_special_expr
Draws(t, d) ==
    /\ counter' = d.counter
    /\ threads' = [threads EXCEPT ![t] =
            [@ EXCEPT !.drawn = Append(@, d.id), !.ids = Append(@, d.id)]]

Draw(t) ==
    /\ threads[t].pc = "make"
    /\ Len(threads[t].drawn) < threads[t].sentinels
    /\ Draws(t, PostIncrement(counter))
    /\ UNCHANGED <<fields, call, ret>>

\* the call returns: result holds the node made, with the ids drawn
Return(t) ==
    /\ threads[t].pc = "make"
    /\ Len(threads[t].drawn) = threads[t].sentinels
    /\ threads' = [threads EXCEPT ![t] =
            [Thread(t, "idle", NoExpr, 0, <<>>)
                EXCEPT !.result = Renumber(threads[t].making, threads[t].drawn)]]
    /\ UNCHANGED <<fields, counter, call, ret>>

\* no thread has called yet; the static counter is zero
ThreadInit == Rewriter(NoExpr)

ThreadNext == \E t \in Threads : Begin(t) \/ Draw(t) \/ Return(t)

\* concurrent callers of the rewriter
ThreadSpec == ThreadInit /\ [][ThreadNext]_vars

(***************************************************************************)
(* expr_match.  The matcher over Exprs in which the wildcards are Variable  *)
(* nodes of the pattern.  It compares structure and not identity, so the   *)
(* inputs carry no ids.  A call returns [returned, result]: the bool and   *)
(* the vector or the map handed in empty.                                  *)
(***************************************************************************)
\* a faulty wildcard: any type is accepted
AnyType(pattern_type, expr_type) == TRUE

\* the declared type of a wildcard against the type of the candidate: the
\* codes agree, and so do bits and lanes unless the wildcard declares 0
types_match(pattern_type, expr_type) ==
    /\ pattern_type.code = expr_type.code
    /\ pattern_type.bits \in {0, expr_type.bits}
    /\ pattern_type.lanes \in {0, expr_type.lanes}

NoMatches == [returned |-> TRUE, result |-> <<>>]
NoMatch == [returned |-> FALSE, result |-> <<>>]

\* a Variable of the pattern, positional flavour: "*" takes the candidate when
\* the types agree; any other Variable is matched by the same Variable
VisitWildcard(op, expr, m) ==
    IF op.name = "*"
    THEN IF types_match(op.type, expr.type)
         THEN [m EXCEPT !.result = Append(@, expr)]
         ELSE NoMatch
    ELSE IF expr = op THEN m ELSE NoMatch

\* a faulty named Variable: a later occurrence takes the place of the first
Rebind(op, expr, m) == [m EXCEPT !.result = [n \in DOMAIN @ \cup {op.name} |->
                                                IF n = op.name THEN expr ELSE @[n]]]

\* a Variable of the pattern, named flavour: the first occurrence of a name
\* takes the candidate, a later one must be equal to what the first took
VisitVariable(op, expr, m) ==
    IF op.name \in DOMAIN m.result
    THEN IF m.result[op.name] = expr THEN m ELSE NoMatch
    ELSE [m EXCEPT !.result = [n \in DOMAIN @ \cup {op.name} |->
                                  IF n = op.name THEN expr ELSE @[n]]]

\* the walk of the pattern against the expression, left to right; m is the
\* outcome so far
RECURSIVE Visit(_, _, _, _)
Visit(named, op, expr, m) ==
    CASE ~m.returned -> m
      [] m.returned /\ op.node_type = "Variable" ->
            IF named THEN VisitVariable(op, expr, m) ELSE VisitWildcard(op, expr, m)
      [] m.returned /\ op.node_type \in ImmKinds ->
            IF expr = op THEN m ELSE NoMatch
      [] m.returned /\ op.node_type \in BinKinds \cup CmpKinds ->
            IF expr.node_type = op.node_type
            THEN Visit(named, op.b, expr.b, Visit(named, op.a, expr.a, m))
            ELSE NoMatch
      [] m.returned /\ op.node_type = "Broadcast" ->
            IF expr.node_type = "Broadcast" /\ expr.lanes = op.lanes
            THEN Visit(named, op.value, expr.value, m)
            ELSE NoMatch
      [] OTHER -> NoMatch

\* bool expr_match(Expr pattern, Expr expr, std::vector<Expr> &result)
expr_match_vector(pattern, expr) == Visit(FALSE, pattern, expr, NoMatches)

\* bool expr_match(Expr pattern, Expr expr, std::map<std::string, Expr> &result)
expr_match_map(pattern, expr) == Visit(TRUE, pattern, expr, NoMatches)

\* the operands of the expressions: variables a and b, 3 and 2 as int32, and
\* operands of other types: an int8 scalar, an int8 vector, a uint32 constant
Int32Leaves == {Variable_make(IntT(32), "a"), Variable_make(IntT(32), "b"),
                IntImm_make(IntT(32), 3)}
OtherLeaves == {Variable_make(IntT(8), "c"),
                Broadcast_make(Variable_make(IntT(8), "c"), 2),
                UIntImm_make(UIntT(32), 3)}

\* l, l op r and l op (r op s) over a set of operands of one type
Terms(L) ==
    L \cup {Bin_make(op, l, r) : op \in {"Add", "Mul"}, l \in L, r \in L}
      \cup {Bin_make("Mul", l, Bin_make("Add", r, s)) : l \in L, r \in L, s \in L}
      \cup {Bin_make("Add", l, Bin_make("Mul", r, s)) : l \in L, r \in L, s \in L}

\* the candidates of the positional flavour, and of the named flavour (whose
\* variables and candidates are all int32)
PositionalExprs == Terms(Int32Leaves) \cup OtherLeaves
                     \cup {Bin_make("Add", l, l) : l \in OtherLeaves}
NamedExprs == Terms(Int32Leaves)

\* the wildcards: Int(32), Int(8, 0) (any lane count), UInt(0, 0) (any
\* unsigned integer), Int(0) (a scalar int of any width)
Wildcards == {Variable_make(t, "*") :
                 t \in {IntT(32), Type("int", 8, 0), Type("uint", 0, 0), Type("int", 0, 1)}}

\* the patterns of the positional flavour: w, w + w, w * (w + w), with a
\* constant or a variable that is no wildcard in some
PositionalPatterns ==
    Wildcards
      \cup {Bin_make("Add", w, v) : w \in Wildcards, v \in Wildcards}
      \cup {Bin_make("Mul", w, Bin_make("Add", w, v)) : w \in Wildcards, v \in Wildcards}
      \cup {Bin_make("Add", w, IntImm_make(IntT(32), 3)) : w \in Wildcards}
      \cup {Bin_make("Mul", Variable_make(IntT(32), "a"), w) : w \in Wildcards}

\* the patterns of the named flavour over Var x and Var y
Vars == {Variable_make(IntT(32), "x"), Variable_make(IntT(32), "y")}
NamedPatterns ==
    Vars
      \cup {Bin_make(op, v, w) : op \in {"Add", "Mul"}, v \in Vars, w \in Vars}
      \cup {Bin_make("Mul", u, Bin_make("Add", v, w)) : u \in Vars, v \in Vars, w \in Vars}
      \cup {Bin_make("Add", v, IntImm_make(IntT(32), 3)) : v \in Vars}

\* the calls to be made
ExprMatchCalls ==
    {[fn |-> "expr_match", result |-> "vector", pattern |-> p, expr |-> e] :
        p \in PositionalPatterns, e \in PositionalExprs}
      \cup {[fn |-> "expr_match", result |-> "map", pattern |-> p, expr |-> e] :
               p \in NamedPatterns, e \in NamedExprs}

\* no Rewriter, no thread: only the call and what it returns
Idle ==
    /\ instance = NoExpr /\ result = NoExpr /\ state = MatcherState /\ counter = 0
    /\ last = [n |-> 0, rule |-> NoRule, kind |-> "none", matched |-> FALSE,
               pred |-> NoFold, fired |-> FALSE]
    /\ threads = NoThreads

\* expr_match(pattern, expr, result) with a std::vector
ExprMatchVector ==
    /\ call.fn = "expr_match" /\ call.result = "vector" /\ ret = NoExpr
    /\ ret' = expr_match_vector(call.pattern, call.expr)
    /\ UNCHANGED <<fields, counter, threads, call>>

\* expr_match(pattern, expr, result) with a std::map
ExprMatchMap ==
    /\ call.fn = "expr_match" /\ call.result = "map" /\ ret = NoExpr
    /\ ret' = expr_match_map(call.pattern, call.expr)
    /\ UNCHANGED <<fields, counter, threads, call>>

ExprMatchInit == Idle /\ call \in ExprMatchCalls /\ ret = NoExpr

ExprMatchNext == ExprMatchVector \/ ExprMatchMap

\* expr_match on every pattern and candidate
ExprMatchSpec == ExprMatchInit /\ [][ExprMatchNext]_vars

(***************************************************************************)
(* select_by_id, as test/correctness/select_by_id.cpp uses it: f(x, c) is  *)
(* defined by a call of select_by_id on c and realized over x and c.  The  *)
(* values are not computed with, so the constants keep their magnitude.    *)
(***************************************************************************)
\* the most values in one call, and the largest id
MaxValues == 4
MaxId == 5

\* f.realize(100, 4): the extents of x and of c
width == 100
channels == 4

\* the constants of the test
second == 456
third == 789

\* an int constant
Literal(v) == [node_type |-> "IntImm", type |-> IntT(32), value |-> v, id |-> 0]

\* select(id == k - 1, values[k], ...) down to the last value, which no test guards
RECURSIVE SelectChain(_, _, _)
SelectChain(id, values, k) ==
    IF k = Len(values) THEN values[k]
    ELSE Select_make(Cmp_make("EQ", id, Literal(k - 1)), values[k],
                     SelectChain(id, values, k + 1))

\* a faulty chain: the last value is selected by its own id only, and an id
\* past the end selects the first value
SelectInRange(id, values) ==
    SelectChain(id, values \o <<values[1]>>, 1)

\* select_by_id(id, {v0, ..., v(n-1)}): v0 where id is 0, else v1 where id is
\* 1, ..., else the last value
select_by_id(id, values) == SelectChain(id, values, 1)

\* select_by_id(id, v0, rest...): the variadic form, which collects its values
select_by_id_variadic(id, v0, rest) == select_by_id(id, <<v0>> \o rest)

\* the value of an Expr over Var x and Var c at a point of the realization
RECURSIVE Evaluate(_, _, _)
Evaluate(e, at_x, at_c) ==
    CASE e.node_type = "Variable" -> IF e.name = "x" THEN at_x ELSE at_c
      [] e.node_type = "IntImm" -> e.value
      [] e.node_type = "EQ" ->
            IF Evaluate(e.a, at_x, at_c) = Evaluate(e.b, at_x, at_c) THEN 1 ELSE 0
      [] e.node_type = "Select" ->
            IF Evaluate(e.condition, at_x, at_c) # 0
            THEN Evaluate(e.true_value, at_x, at_c)
            ELSE Evaluate(e.false_value, at_x, at_c)

\* Var x("x"), c("c")
VarX == Variable_make(IntT(32), "x")
VarC == Variable_make(IntT(32), "c")

\* the values given to select_by_id: those of the test (x, 456, 789), and 0
SelectValues == {VarX, Literal(second), Literal(third), Literal(0)}

\* the points of the realization tried: the ends of x and one inside, and
\* each c, also past the extent of the test
SelectPoints == {0, 1, width - 1} \X (0 .. MaxId)

\* the calls: either form, on 1 to MaxValues values, at a point
SelectCalls ==
    {[fn |-> "select_by_id", form |-> form, values |-> values, x |-> p[1], c |-> p[2]] :
        form \in {"variadic", "list"},
        values \in UNION {[1 .. n -> SelectValues] : n \in 1 .. MaxValues},
        p \in SelectPoints}

\* f(x, c) = select_by_id(c, v0, ...); result = f.realize(...): result(x, c)
RealizeVariadic ==
    /\ call.fn = "select_by_id" /\ call.form = "variadic" /\ ret = NoExpr
    /\ ret' = [value |-> Evaluate(select_by_id_variadic(VarC, Head(call.values),
                                                         Tail(call.values)),
                                  call.x, call.c)]
    /\ UNCHANGED <<fields, counter, threads, call>>

\* f(x, c) = select_by_id(c, {v0, ...}); result = f.realize(...): result(x, c)
RealizeList ==
    /\ call.fn = "select_by_id" /\ call.form = "list" /\ ret = NoExpr
    /\ ret' = [value |-> Evaluate(select_by_id(VarC, call.values), call.x, call.c)]
    /\ UNCHANGED <<fields, counter, threads, call>>

SelectInit == Idle /\ call \in SelectCalls /\ ret = NoExpr

SelectNext == RealizeVariadic \/ RealizeList

\* select_by_id in both forms at every point
SelectSpec == SelectInit /\ [][SelectNext]_vars

(***************************************************************************)
(* Properties.  `last` is the call just made on `instance`: its rule, and   *)
(* what the call computed and returned.                                    *)
(***************************************************************************)
Called == last.n > 0

\* the patterns op(x, x)
WildTwice == {BinOp(op, x, x) : op \in OpaqueKinds}

\* C1: a pattern op(x, x), with Wild<0> twice, matches from the empty mask
\* iff the root is an op node (the rest of the pattern) and its two operands
\* are structurally equal: same type, same node kind, equal children; the
\* binding is the first operand.
C1_WildTwiceMatchesIffEqual ==
    (Called /\ last.rule.before \in WildTwice) =>
        /\ last.matched <=>
              /\ instance.node_type = last.rule.before.op
              /\ Structure(instance.a) = Structure(instance.b)
        /\ last.matched => get_binding(state, 0) = instance.a

\* op(x, x) has matched two distinct operand objects that are not leaves
C1_Witness ==
    /\ Called /\ last.rule.before \in WildTwice /\ last.matched
    /\ instance.a.id # instance.b.id
    /\ instance.a.node_type = "Add"
    /\ get_binding(state, 0) = instance.a

\* the patterns op(c, c) over one constant wildcard
ConstTwice ==
    {BinOp("Max", c0, c0)} \cup
    {BinOp("Min", w, w) : w \in {WildConstInt(0), WildConstUInt(0), WildConstFloat(0)}}

\* the immediate kinds a constant wildcard takes
KindsTaken(w) ==
    CASE w.p = "WildConstInt" -> {"IntImm"}
      [] w.p = "WildConstUInt" -> {"UIntImm"}
      [] w.p = "WildConstFloat" -> {"FloatImm"}
      [] OTHER -> ImmKinds

\* e is a scalar immediate or a Broadcast of one
IsConstant(e) == Peel(e).node_type \in ImmKinds

\* C2: a pattern op(c, c), with one constant wildcard twice, on a root
\* op(a, b) whose operands are scalar immediates or Broadcasts of them and
\* whose first operand the wildcard takes: the second occurrence succeeds
\* iff b has the type (code, bits, lanes) and the value of a.
C2_ConstTwiceMatchesIffSame ==
    (/\ Called /\ last.rule.before \in ConstTwice
     /\ instance.node_type = last.rule.before.op
     /\ IsConstant(instance.a) /\ IsConstant(instance.b)
     /\ Peel(instance.a).node_type \in KindsTaken(last.rule.before.a)) =>
        (last.matched <=>
            /\ instance.a.type = instance.b.type
            /\ Peel(instance.a).value = Peel(instance.b).value)

\* max(c0, c0) has been tried on the max of two identical Broadcast constants
\* and has not matched
C2_Witness ==
    /\ Called /\ last.rule.before = BinOp("Max", c0, c0)
    /\ instance.node_type = "Max"
    /\ instance.a.node_type = "Broadcast"
    /\ Structure(instance.a) = Structure(instance.b)
    /\ ~last.matched

\* the two poison flags, each alone
Overflowed(t) == (t.lanes \div signed_integer_overflow) % 2 = 1
Indeterminate(t) == (t.lanes \div indeterminate_expression) % 2 = 1

\* C3: a call with a predicate returns true iff the pattern matched the root,
\* the predicate folded to a non-zero value, and the folded type carries
\* neither OVERFLOW nor INDETERMINATE; it then sets result (to the Expr given,
\* when the rule gives one), and otherwise leaves result as it was.
C3_PredicateGatesRule ==
    [][last'.kind \in {"pattern_pred", "expr_pred"} =>
          /\ last'.fired <=>
                /\ last'.matched
                /\ last'.pred.val # 0
                /\ ~Overflowed(last'.pred.ty)
                /\ ~Indeterminate(last'.pred.ty)
          /\ (last'.fired /\ last'.kind = "expr_pred") => result' = last'.rule.after
          /\ last'.fired => result' # NoExpr
          /\ ~last'.fired => result' = result]_vars

\* the pattern matched and the predicate folded to a non-zero value that
\* carries OVERFLOW: the call returned false
C3_Witness ==
    /\ last.kind = "pattern_pred" /\ last.matched
    /\ last.pred.val # 0 /\ Overflowed(last.pred.ty)
    /\ ~last.fired

\* the first call on a Rewriter just constructed
FirstCall == last.n = 1

\* the call on a fresh Rewriter of root e that repeats the last call's rule
Again(e) ==
    Apply(last.rule, last.kind \in {"expr", "expr_pred"}, Place(e, 1), NoExpr, MatcherState, 0)

\* the result of a fold with k lanes: the Broadcast of the scalar constant, or
\* the same poison call with k lanes
Vectorised(e, k) ==
    IF e.node_type = "Call" THEN [e EXCEPT !.type = with_lanes(@, k)]
    ELSE Broadcast_make(e, k)

\* C4 as stated: a rule that fires on a scalar e fires on Broadcast(e, k),
\* for every k of the model, and yields Broadcast(rewrite(e), k), or, up to
\* poison, the poison call with k lanes.
C4_FiresOnBroadcastOfRoot ==
    (FirstCall /\ last.fired /\ instance.type.lanes = 1) =>
        \A k \in VecLanes :
            LET v == Again(Broadcast_make(Structure(instance), k))
            IN  /\ v.fired
                /\ Structure(v.result) \in {Broadcast_make(Structure(result), k),
                                            Vectorised(Structure(result), k)}

\* C4, amended: a rule c0 op c1 -> fold(c0 op c1) that fires on a op b, for
\* scalar constants a and b, fires on Broadcast(a, k) op Broadcast(b, k) for
\* every k >= 2 of the model, and yields the Broadcast with k lanes of the
\* scalar result, or the scalar run's poison call with k lanes.
C4_FoldRuleFiresOnBroadcastOperands ==
    (/\ FirstCall /\ last.fired /\ instance.type.lanes = 1
     /\ last.rule \in {FoldRule(op) : op \in ArithKinds}) =>
        \A k \in VecLanes :
            LET v == Again(Bin_make(instance.node_type,
                                    Broadcast_make(Structure(instance.a), k),
                                    Broadcast_make(Structure(instance.b), k)))
            IN  v.fired /\ v.result = Vectorised(result, k)

\* c0 + c1 -> fold(c0 + c1) has fired on 3 + b (scalar) and made a constant
C4_Witness ==
    /\ FirstCall /\ last.fired /\ last.rule = FoldRule("Add")
    /\ instance.type.lanes = 1 /\ instance.a.value = 3
    /\ result.node_type = "IntImm"

\* the constant folded by the rule just tried: [val, ty, state]
Folded == make_folded_const(last.rule.after.a, state)

\* the values of the two constant operands of the root, and its scalar bits
OperandA == Peel(instance.a).value
OperandB == Peel(instance.b).value
Bits == instance.type.bits

\* the exact a op b, and whether it fits a signed type of `bits` bits; the
\* product is bounded by a division before it is formed
Exact(op, a, b) ==
    CASE op = "Add" -> a + b
      [] op = "Sub" -> a - b
      [] op = "Mul" -> a * b

Magnitude(v) == IF v < 0 THEN -v ELSE v

ExactFits(op, bits, a, b) ==
    IF op = "Mul"
    THEN \/ a = 0
         \/ b = 0
         \/ (a < 0) = (b < 0) /\ Magnitude(a) <= MaxVal(bits) \div Magnitude(b)
         \/ (a < 0) # (b < 0) /\ Magnitude(a) <= (MaxVal(bits) + 1) \div Magnitude(b)
    ELSE MinVal(bits) <= Exact(op, a, b) /\ Exact(op, a, b) <= MaxVal(bits)

\* c0 op c1 -> fold(c0 op c1) has been tried on a op b over signed constants
SignedFold ==
    /\ Called /\ last.matched
    /\ last.rule \in {FoldRule(op) : op \in {"Add", "Sub", "Mul"}}
    /\ instance.type.code = "int"

\* C5 as stated: when the exact result fits T the payload is that result and
\* OVERFLOW is unset; otherwise OVERFLOW is set.
C5_OverflowFlaggedWheneverUnfit ==
    SignedFold =>
        IF ExactFits(instance.node_type, Bits, OperandA, OperandB)
        THEN /\ Folded.val = Exact(instance.node_type, OperandA, OperandB)
             /\ ~Overflowed(Folded.ty)
        ELSE Overflowed(Folded.ty)

\* C5, amended: when the exact result fits T the payload is that result and
\* OVERFLOW is unset, and the rule returns that constant; when it does not
\* fit, OVERFLOW is set iff T has 32 bits or more, and for a narrower T the
\* payload is the exact result wrapped to T.bits, still returned as a constant.
C5_OverflowFlaggedFrom32Bits ==
    SignedFold =>
        IF ExactFits(instance.node_type, Bits, OperandA, OperandB)
        THEN /\ Folded.val = Exact(instance.node_type, OperandA, OperandB)
             /\ ~Overflowed(Folded.ty)
             /\ result = make_const(instance.type, Folded.val)
        ELSE /\ Overflowed(Folded.ty) <=> Bits >= 32
             /\ Bits < 32 =>
                   /\ Folded.val =
                         ToSigned(Exact(instance.node_type, OperandA, OperandB), Width(Bits))
                   /\ result = make_const(instance.type, Folded.val)
             /\ Bits >= 32 => result.node_type = "Call"

\* INT32_MAX * 3 has been folded: OVERFLOW, and no constant returned
C5_Witness ==
    /\ SignedFold /\ last.rule = FoldRule("Mul")
    /\ Bits = 32 /\ OperandA = MaxVal(32) /\ OperandB = 3
    /\ Overflowed(Folded.ty)
    /\ result.node_type = "Call"

\* the rules that fold a division or a remainder: by the bound c1, by Const(0)
ByWildcard == {FoldRule(op) : op \in {"Div", "Mod"}}
ByLiteralZero ==
    {Rule(BinOp(op, c0, c1), FoldOp(BinOp(op, c0, Const(0)))) : op \in {"Div", "Mod"}}

\* a / 0 or a % 0 has been folded, over signed or unsigned integers
FoldedByZero ==
    /\ Called /\ last.matched
    /\ instance.type.code \in {"int", "uint"}
    /\ \/ last.rule \in ByLiteralZero
       \/ last.rule \in ByWildcard /\ OperandB = 0

\* C6: folding a / 0 or a % 0 over a signed or unsigned integer type gives
\* the payload 0 and sets INDETERMINATE, the zero coming from the bound
\* constant wildcard or from a literal Const; the rule then returns the
\* indeterminate_expression call.
C6_DivisionByZeroIsIndeterminate ==
    FoldedByZero =>
        /\ Folded.val = 0
        /\ Indeterminate(Folded.ty)
        /\ result.node_type = "Call" /\ result.name = "indeterminate_expression"

\* 5 / c1 has been folded by the literal zero, c1 not being zero
C6_Witness ==
    /\ FoldedByZero /\ last.rule \in ByLiteralZero
    /\ OperandA = 5 /\ OperandB = 3
    /\ Indeterminate(Folded.ty)

\* the rules whose fold is c1 != 0 && right, or c1 == 0 || right
ShortRules == {AndRule(Divides), OrRule(Divides)}
ShortBindRules == {AndRule(BindOp(2, Divides)), OrRule(BindOp(2, Divides))}

\* the value at which the fold of op stops at the left operand
Absorbing(op) == IF op = "And" THEN 0 ELSE 1

\* C7: in fold(c1 != 0 && right) and fold(c1 == 0 || right) with c1 = 0 the
\* left operand folds to 0, respectively 1, and right, which divides by c1,
\* would fold to a poisoned value: the fold is the left operand's value and
\* type, with no poison, the rule returns that boolean constant and no
\* sentinel is made; and a right operand that binds constant 2 when it is
\* evaluated has not bound it, while it has when c1 is not zero.
C7_AndOrStopAtLeftOperand ==
    (Called /\ last.matched /\ last.rule \in ShortRules \cup ShortBindRules) =>
        LET op == last.rule.after.a.op
            left == make_folded_const(last.rule.after.a.a, state)
        IN  /\ OperandB = 0 =>
                  /\ Folded.val = Absorbing(op)
                  /\ Folded.ty = left.ty
                  /\ ~Overflowed(Folded.ty) /\ ~Indeterminate(Folded.ty)
                  /\ result = make_const(Type("uint", 1, instance.type.lanes), Absorbing(op))
                  /\ counter = 0
            /\ last.rule \in ShortBindRules => (2 \in state.written <=> OperandB # 0)

\* fold(c1 == 0 || c0 % c1 == 0) has been made with c1 = 0
C7_Witness ==
    /\ Called /\ last.matched /\ last.rule = OrRule(Divides)
    /\ OperandB = 0 /\ OperandA = 5
    /\ Folded.val = 1
    /\ result.node_type = "UIntImm"

\* c0 -> fold(-c0) has been tried on a signed constant
SignedNegate ==
    /\ Called /\ last.matched
    /\ last.rule = Rule(c0, FoldOp(NegateOp(c0)))
    /\ instance.type.code = "int"

\* C8: folding -v for a signed constant v of type T: when T has 32 bits or
\* more and v is the most negative value of T, OVERFLOW is set; for every
\* other v no flag is added and the payload is -v wrapped to T.bits (so the
\* most negative value of a narrower T folds to itself).
C8_NegateFlagsMostNegative ==
    SignedNegate =>
        LET v == Peel(instance).value
        IN  IF Bits >= 32 /\ v = MinVal(Bits)
            THEN Overflowed(Folded.ty) /\ result.name = "signed_integer_overflow"
            ELSE /\ Folded.ty = instance.type
                 /\ Folded.val = ToSigned(-v, Width(Bits))
                 /\ result = make_const(instance.type, Folded.val)

\* -INT32_MIN has been folded
C8_Witness ==
    /\ SignedNegate /\ Bits = 32 /\ Peel(instance).value = MinVal(32)
    /\ Overflowed(Folded.ty)

\* C9: c0 -> c0, with c0 = WildConst<0>, tried on a scalar immediate (int,
\* uint or float) or a Broadcast of one: the match from the empty mask
\* succeeds and the make returns an expression of the same structure and the
\* same type (code, bits, lanes) as the root, equal to it by `equal`.
C9_WildConstRoundTrip ==
    (Called /\ last.rule = Rule(c0, c0) /\ IsConstant(instance)) =>
        /\ last.matched /\ last.fired
        /\ Structure(result) = Structure(instance)
        /\ result.type = instance.type
        /\ equal(result, instance)

\* the round trip of a Broadcast of an unsigned constant
C9_Witness ==
    /\ Called /\ last.rule = Rule(c0, c0) /\ last.fired
    /\ instance.node_type = "Broadcast" /\ instance.value.node_type = "UIntImm"
    /\ instance.value.value = 3
    /\ result.node_type = "Broadcast"

\* C10: a call that emits fold(a): when the folded type carries a flag the
\* result is a call of the intrinsic indeterminate_expression (INDETERMINATE
\* set) or signed_integer_overflow (only OVERFLOW set) whose one argument is
\* the 32-bit integer id drawn from the counter, which advances by one, and
\* whose type is the folded type with the two flags cleared: its code, its
\* bits and its lane count; when the folded type carries no flag the result
\* is no call and the counter stays.
C10_PoisonedFoldEmitsSentinel ==
    [][(last'.fired /\ last'.kind \in {"pattern", "pattern_pred"}
            /\ last'.rule.after.p = "FoldOp") =>
          LET f == make_folded_const(last'.rule.after.a, state')
              name == IF Indeterminate(f.ty) THEN "indeterminate_expression"
                      ELSE "signed_integer_overflow"
              lanes == f.ty.lanes % indeterminate_expression
          IN  IF Overflowed(f.ty) \/ Indeterminate(f.ty)
              THEN /\ result' = Call_make(Type(f.ty.code, f.ty.bits, lanes), name,
                                          <<IntImm_make(IntT(32), counter)>>, "Intrinsic")
                   /\ lanes = instance.type.lanes
                   /\ counter' = counter + 1
              ELSE /\ result'.node_type # "Call"
                   /\ counter' = counter]_vars

\* INT32_MAX + 3 over two lanes has been folded by c0 + c1 -> fold(c0 + c1):
\* the overflow call with two lanes, after an earlier sentinel
C10_Witness ==
    /\ Called /\ last.fired /\ last.rule = FoldRule("Add")
    /\ instance.type = Type("int", 32, 2)
    /\ Peel(instance.a).value = MaxVal(32) /\ Peel(instance.b).value = 3
    /\ result.node_type = "Call" /\ result.name = "signed_integer_overflow"
    /\ result.type = Type("int", 32, 2)
    /\ counter = 2

\* the ids thread t has drawn, in the order it drew them
IdsOf(t) == threads[t].ids

\* the ids carried by the sentinels of node e
RECURSIVE IdsIn(_)
IdsIn(e) ==
    CASE e.node_type \in BinKinds \cup CmpKinds -> IdsIn(e.a) \cup IdsIn(e.b)
      [] e.node_type = "Broadcast" -> IdsIn(e.value)
      [] e.node_type = "Call" /\ e.name \in SentinelNames -> {e.args[1].value}
      [] OTHER -> {}

\* C11: whatever the interleaving of the callers, no id is drawn twice, by
\* one thread or by two; the ids one thread draws increase strictly; the
\* counter has advanced once per id drawn; and the sentinels of a returned
\* result carry ids their thread drew, one id each.
C11_SentinelIdsUnique ==
    /\ \A t \in Threads, u \in Threads :
          \A i \in DOMAIN IdsOf(t), j \in DOMAIN IdsOf(u) :
              (t # u \/ i # j) => IdsOf(t)[i] # IdsOf(u)[j]
    /\ \A t \in Threads :
          \A i \in DOMAIN IdsOf(t), j \in DOMAIN IdsOf(t) :
              i < j => IdsOf(t)[i] < IdsOf(t)[j]
    /\ \A t \in Threads :
          /\ IdsIn(threads[t].result) \subseteq {IdsOf(t)[i] : i \in DOMAIN IdsOf(t)}
          /\ (/\ threads[t].result.node_type = "Add"
               /\ threads[t].result.a.node_type = "Call"
               /\ threads[t].result.b.node_type = "Call") =>
                threads[t].result.a.args # threads[t].result.b.args

\* thread 1 has returned a sum of two sentinels whose ids are 0 and 2: thread
\* 2 drew the id 1 between the two
C11_Witness ==
    /\ threads[1].result.node_type = "Add"
    /\ IdsIn(threads[1].result) = {0, 2}
    /\ IdsOf(2) = <<1>>

\* floor(a / b), b not zero: the integer division of TLA+, which rounds
\* towards minus infinity, taken with a positive divisor
Floor(a, b) == IF b > 0 THEN a \div b ELSE (-a) \div (-b)

\* c0 / c1 -> fold(c0 / c1) or c0 % c1 -> fold(c0 % c1) has been tried on
\* a / b or a % b over signed constants, b not zero
SignedDivision ==
    /\ Called /\ last.matched /\ last.rule \in ByWildcard
    /\ instance.type.code = "int"
    /\ OperandB # 0

\* the quotient of a by b does not fit the 64-bit word
QuotientUnfit == Bits = 64 /\ OperandA = MinVal(64) /\ OperandB = -1

\* the payload the claim gives the fold of a / b, of a % b
FlooredPayload ==
    IF instance.node_type = "Div" THEN Floor(OperandA, OperandB)
    ELSE OperandA - OperandB * Floor(OperandA, OperandB)

Converted(n, op) == IF op.node_type = "UIntImm" THEN n % Pow2(WordBits) ELSE n

\* e is an immediate of value n, or a Broadcast of one
IsLiteral(e, n) == IsConstant(e) /\ Peel(e).value = Converted(n, Peel(e))

\* C13: Const(n) matches e iff e, or the value of e when e is a Broadcast, is
\* an IntImm, UIntImm or FloatImm of value n, whatever its bits and lanes, and
\* the match writes no slot; x + n -> x matches y + k iff k is such a
\* constant, returns the very node y, and has written the slot of x only.
C13_ConstMatchesLiteral ==
    /\ (Called /\ last.rule \in LiteralRules) =>
          /\ last.matched <=> IsLiteral(instance, last.rule.before.val)
          /\ state = MatcherState
    /\ (Called /\ last.rule \in AddLiteralRules) =>
          /\ last.matched <=>
                (instance.node_type = "Add" /\ IsLiteral(instance.b, last.rule.before.b.val))
          /\ last.matched => (result = instance.a /\ state.written = {16})

\* x + 0 -> x has returned y from y + Broadcast(0.0f, 2)
C13_Witness ==
    /\ Called /\ last.rule = Rule(BinOp("Add", x, Const(0)), x) /\ last.fired
    /\ instance.b.node_type = "Broadcast" /\ instance.b.value.node_type = "FloatImm"
    /\ result = instance.a /\ result.node_type = "Variable"

\* a leaf that fails: a composite pattern met a node of another kind
Mismatch(e) == <<[p |-> NoPattern, e |-> e]>>

\* the wildcards of pattern p, each with the node of e it meets, from left to
\* right
RECURSIVE LeavesOf(_, _)
LeavesOf(p, e) ==
    CASE p.p \in {"BinOp", "CmpOp"} ->
            IF e.node_type = p.op THEN LeavesOf(p.a, e.a) \o LeavesOf(p.b, e.b)
            ELSE Mismatch(e)
      [] p.p = "RampOp" ->
            IF e.node_type = "Ramp" THEN LeavesOf(p.a, e.base) \o LeavesOf(p.b, e.stride)
            ELSE Mismatch(e)
      [] p.p = "SelectOp" ->
            IF e.node_type = "Select"
            THEN LeavesOf(p.c, e.condition) \o LeavesOf(p.t, e.true_value)
                    \o LeavesOf(p.f, e.false_value)
            ELSE Mismatch(e)
      [] p.p = "Intrin" ->
            IF e.node_type = "Call" /\ e.call_type = "Intrinsic" /\ e.name = p.intrin
            THEN LeavesOf(p.args[1], e.args[1]) \o LeavesOf(p.args[2], e.args[2])
            ELSE Mismatch(e)
      [] OTHER -> <<[p |-> p, e |-> e]>>

\* the leaves of the rule just tried on the root
Leaves == LeavesOf(last.rule.before, instance)

\* the place of the first occurrence of the wildcard at place i
First(L, i) == CHOOSE j \in 1 .. i : L[j].p = L[i].p /\ \A k \in 1 .. (j - 1) : L[k].p # L[i].p

\* the leaf at place i succeeds, those before it having succeeded: a constant
\* wildcard meets a constant, and a wildcard met before meets an equal node
LeafSucceeds(L, i) ==
    /\ L[i].p # NoPattern
    /\ L[i].p = c0 => IsConstant(L[i].e)
    /\ Structure(L[i].e) = Structure(L[First(L, i)].e)

\* the leaves visited: up to the first that fails, that one included
Visited(L) == {i \in DOMAIN L : \A j \in 1 .. (i - 1) : LeafSucceeds(L, j)}

\* C19: a composite pattern (BinOp, CmpOp, SelectOp, RampOp, Intrin, and a
\* CmpOp inside a SelectOp) visits its wildcards from left to right and stops
\* at the first that fails: it matches iff every wildcard succeeds, where a
\* wildcard whose slot an earlier one has written compares with that first
\* occurrence, and any other binds; the slots written are those of the
\* wildcards visited that succeeded, and each holds its first occurrence.
C19_MaskThreadedLeftToRight ==
    (Called /\ last.rule \in CompositeRules) =>
        /\ last.matched <=> \A i \in DOMAIN Leaves : LeafSucceeds(Leaves, i)
        /\ state.written =
              UNION {binds(Leaves[i].p) : i \in {j \in Visited(Leaves) : LeafSucceeds(Leaves, j)}}
        /\ \A i \in Visited(Leaves) :
              LeafSucceeds(Leaves, i) =>
                  IF Leaves[i].p = c0
                  THEN get_bound_const(state, 0) =
                          [val |-> Peel(Leaves[First(Leaves, i)].e).value,
                           ty |-> Leaves[First(Leaves, i)].e.type]
                  ELSE get_binding(state, Leaves[i].p.i) = Leaves[First(Leaves, i)].e

\* select(x < y, y, x) has matched: its third and fourth wildcards compared
\* with the nodes bound under the condition
C19_Witness ==
    /\ Called /\ last.matched
    /\ last.rule.before = SelectOp(CmpOp("LT", x, y), y, x)
    /\ instance.condition.a.node_type = "Variable"
    /\ instance.condition.b.node_type = "IntImm"
    /\ get_binding(state, 0) = instance.condition.a
    /\ get_binding(state, 1) = instance.condition.b
    /\ get_binding(state, 1).id # instance.true_value.id

\* C20: ramp(base, stride, lanes) matches a node iff the node is a Ramp, its
\* lane count is `lanes` or `lanes` is -1, and base and stride match its base
\* and its stride, base first.
C20_RampLanesConstrain ==
    (Called /\ last.rule.before \in RampPatterns) =>
        (last.matched <=>
            /\ instance.node_type = "Ramp"
            /\ last.rule.before.lanes = -1 \/ last.rule.before.lanes = instance.lanes
            /\ \A i \in DOMAIN Leaves : LeafSucceeds(Leaves, i))

\* ramp(x, y, 3) has matched a Ramp of two lanes
C20_Witness ==
    /\ Called /\ last.matched
    /\ last.rule.before = RampOp(x, y, 3)
    /\ instance.node_type = "Ramp" /\ instance.lanes = 2

\* the 64-bit a op b is defined: the operands are narrower than 64 bits, or the
\* exact result fits 64 bits (otherwise the signed operation overflows)
WordResultDefined ==
    Bits < 64 \/ ExactFits(instance.node_type, 64, OperandA, OperandB)

\* C17: a signed Add, Sub or Mul fold sets OVERFLOW iff T.bits >= 32 and the
\* exact result does not fit T.bits, and sets no other flag; for T.bits of 8
\* or 16 no flag is ever set; and wherever the 64-bit result is defined the
\* payload is that result truncated to T.bits and sign-extended.
C17_OverflowIffWideAndUnfit ==
    SignedFold =>
        /\ Overflowed(Folded.ty) <=>
              (Bits >= 32 /\ ~ExactFits(instance.node_type, Bits, OperandA, OperandB))
        /\ ~Indeterminate(Folded.ty)
        /\ Bits \in {8, 16} => Folded.ty = instance.a.type
        /\ WordResultDefined =>
              Folded.val = ToSigned(Exact(instance.node_type, OperandA, OperandB), Width(Bits))

\* INT8_MAX + 1 has been folded: the payload wraps to INT8_MIN, and no flag
C17_Witness ==
    /\ SignedFold /\ last.rule = FoldRule("Add")
    /\ Bits = 8 /\ OperandA = MaxVal(8) /\ OperandB = 1
    /\ Folded.val = MinVal(8)
    /\ ~IsPoisoned(Folded.ty)
    /\ result = make_const(instance.type, MinVal(8))

\* the flags the kernel of op may raise by itself
OwnFlags(op) ==
    CASE op \in {"Add", "Sub", "Mul"} -> {0, signed_integer_overflow}
      [] op \in {"Div", "Mod"} -> {0, indeterminate_expression}
      [] OTHER -> {0}

\* the type t of the fold of node p, given the OR `lanes` of its operands'
\* lanes: as claimed (exactly that OR), or with the flag the node itself raises
Merged(p, t, operand, lanes, as_claimed) ==
    IF p.p = "CmpOp" THEN t = Type("uint", 1, lanes)
    ELSE /\ t.code = operand.code /\ t.bits = operand.bits
         /\ BitAnd(t.lanes, lanes) = lanes
         /\ IF as_claimed THEN t.lanes = lanes
            ELSE t.lanes \in {BitOr(lanes, flag) : flag \in OwnFlags(p.op)}

\* Merged at every binary node of the fold p made from st whose operands are
\* both folded; a literal operand has no lanes
RECURSIVE Sticky(_, _, _)
Sticky(p, st, as_claimed) ==
    CASE p.p \in {"BinOp", "CmpOp"} /\ p.b.p = "Const" ->
            /\ Sticky(p.a, st, as_claimed)
            /\ Merged(p, make_folded_const(p, st).ty, make_folded_const(p.a, st).ty,
                      make_folded_const(p.a, st).ty.lanes, as_claimed)
      [] p.p \in {"BinOp", "CmpOp"} /\ p.b.p # "Const" /\ p.a.p = "Const" ->
            /\ Sticky(p.b, st, as_claimed)
            /\ Merged(p, make_folded_const(p, st).ty, make_folded_const(p.b, st).ty,
                      make_folded_const(p.b, st).ty.lanes, as_claimed)
      [] p.p \in {"BinOp", "CmpOp"} /\ p.b.p # "Const" /\ p.a.p # "Const" ->
            LET fa == make_folded_const(p.a, st)
            IN  /\ Sticky(p.a, st, as_claimed)
                /\ \/ p.p = "BinOp" /\ ShortCircuit(p.op, fa.val)
                   \/ LET fb == make_folded_const(p.b, fa.state)
                      IN  /\ Sticky(p.b, fa.state, as_claimed)
                          /\ Merged(p, make_folded_const(p, st).ty, fa.ty,
                                    BitOr(fa.ty.lanes, fb.ty.lanes), as_claimed)
      [] p.p \in {"NotOp", "NegateOp", "BindOp"} -> Sticky(p.a, st, as_claimed)
      [] OTHER -> TRUE

\* a fold rule has matched; its fold is made from the state of the match
FoldMade == Called /\ last.matched /\ last.rule.after.p = "FoldOp"

\* the state the fold of the rule just tried was made from
MatchState == match(last.rule.before, instance, {}, MatcherState).state

\* C18 as stated: at every binary arithmetic or comparison fold whose two
\* operands are folded, at any depth, the lanes of the result are exactly the
\* OR of the lanes of the operands, and a comparison is uint-1.
C18_LanesAreOrOfOperands ==
    FoldMade => Sticky(last.rule.after.a, MatchState, TRUE)

\* C18, amended: at every such fold the lanes of the result are the OR of the
\* lanes of the operands and of the flag, if any, the fold's own operation
\* raises (OVERFLOW by Add, Sub, Mul; INDETERMINATE by Div, Mod; none by the
\* others), so every operand flag is on the result; a comparison is uint-1
\* with exactly the OR.
C18_PoisonIsSticky ==
    FoldMade => Sticky(last.rule.after.a, MatchState, FALSE)

\* (INT32_MAX * 3 + INT32_MAX) == (3 % 0) has been folded: uint-1 with the
\* OVERFLOW of the left operand and the INDETERMINATE of the right one
C18_Witness ==
    /\ FoldMade
    /\ last.rule.after.a.p = "CmpOp" /\ last.rule.after.a.op = "EQ"
    /\ last.rule.after.a.a.p = "BinOp"
    /\ instance.type = IntT(32) /\ OperandA = MaxVal(32) /\ OperandB = 3
    /\ Folded.ty = Type("uint", 1,
                        1 + signed_integer_overflow + indeterminate_expression)
    /\ result.node_type = "Call"

\* the sub-expressions of e
RECURSIVE SubExprs(_)
SubExprs(e) ==
    {e} \cup CASE e.node_type \in BinKinds \cup CmpKinds -> SubExprs(e.a) \cup SubExprs(e.b)
               [] e.node_type = "Broadcast" -> SubExprs(e.value)
               [] OTHER -> {}

\* the wildcards "*" of the pattern, left to right, one per occurrence
RECURSIVE Stars(_)
Stars(p) ==
    CASE p.node_type = "Variable" -> IF p.name = "*" THEN <<p>> ELSE <<>>
      [] p.node_type \in BinKinds \cup CmpKinds -> Stars(p.a) \o Stars(p.b)
      [] p.node_type = "Broadcast" -> Stars(p.value)
      [] OTHER -> <<>>

\* the pattern with its wildcards replaced, left to right, by s[i + 1], s[i + 2],
\* ...: the nodes above them are made again, so that they take their types
\* from what was put in
RECURSIVE Fill(_, _, _)
Fill(p, s, i) ==
    CASE p.node_type = "Variable" -> IF p.name = "*" THEN s[i + 1] ELSE p
      [] p.node_type \in BinKinds ->
            Bin_make(p.node_type, Fill(p.a, s, i), Fill(p.b, s, i + Len(Stars(p.a))))
      [] p.node_type \in CmpKinds ->
            Cmp_make(p.node_type, Fill(p.a, s, i), Fill(p.b, s, i + Len(Stars(p.a))))
      [] p.node_type = "Broadcast" -> Broadcast_make(Fill(p.value, s, i), p.lanes)
      [] OTHER -> p

\* the declared type of a wildcard agrees with a type: the same code, and the
\* same bits and lanes where the wildcard declares them (0 declares nothing)
Agrees(declared, t) ==
    /\ declared.code = t.code
    /\ declared.bits # 0 => declared.bits = t.bits
    /\ declared.lanes # 0 => declared.lanes = t.lanes

\* s is a matching of the pattern with the expression: one sub-expression
\* per wildcard, of an agreeing type, that put in place give the expression
Matching(p, e, s) ==
    /\ Len(s) = Len(Stars(p))
    /\ \A i \in 1 .. Len(s) : Agrees(Stars(p)[i].type, s[i].type)
    /\ Fill(p, s, 0) = e

PositionalCall == call.fn = "expr_match" /\ call.result = "vector" /\ ret # NoExpr

\* C14: positional expr_match returns true iff the expression has the
\* structure of the pattern with, at each wildcard "*", a sub-expression whose
\* type agrees with the wildcard's declared type; on success the vector lists
\* those sub-expressions in the left-to-right order of the wildcards, one per
\* occurrence.
C14_PositionalMatch ==
    PositionalCall =>
        /\ ret.returned <=>
              \E s \in [1 .. Len(Stars(call.pattern)) -> SubExprs(call.expr)] :
                  Matching(call.pattern, call.expr, s)
        /\ ret.returned => Matching(call.pattern, call.expr, ret.result)

\* x + x with x = Variable(Int(32), "*") has matched 3 + (a * b): result[0] = 3
\* and result[1] = a * b
C14_Witness ==
    /\ PositionalCall /\ ret.returned
    /\ call.pattern = Bin_make("Add", Variable_make(IntT(32), "*"), Variable_make(IntT(32), "*"))
    /\ call.expr.node_type = "Add"
    /\ ret.result = <<IntImm_make(IntT(32), 3),
                      Bin_make("Mul", Variable_make(IntT(32), "a"), Variable_make(IntT(32), "b"))>>

\* the names of the variables of the pattern
RECURSIVE Names(_)
Names(p) ==
    CASE p.node_type = "Variable" -> {p.name}
      [] p.node_type \in BinKinds \cup CmpKinds -> Names(p.a) \cup Names(p.b)
      [] p.node_type = "Broadcast" -> Names(p.value)
      [] OTHER -> {}

\* the pattern with every variable replaced by what the map holds under its name
RECURSIVE Bind(_, _)
Bind(p, map) ==
    CASE p.node_type = "Variable" -> map[p.name]
      [] p.node_type \in BinKinds -> Bin_make(p.node_type, Bind(p.a, map), Bind(p.b, map))
      [] p.node_type \in CmpKinds -> Cmp_make(p.node_type, Bind(p.a, map), Bind(p.b, map))
      [] p.node_type = "Broadcast" -> Broadcast_make(Bind(p.value, map), p.lanes)
      [] OTHER -> p

\* the sub-expression of e at the place of the first occurrence, left to
\* right, of the variable `name` in p, when e has the shape of p down to there
RECURSIVE FirstBinding(_, _, _)
FirstBinding(p, e, name) ==
    CASE p.node_type = "Variable" -> e
      [] p.node_type \in BinKinds \cup CmpKinds ->
            IF name \in Names(p.a) THEN FirstBinding(p.a, e.a, name)
            ELSE FirstBinding(p.b, e.b, name)
      [] p.node_type = "Broadcast" -> FirstBinding(p.value, e.value, name)

NamedCall == call.fn = "expr_match" /\ call.result = "map" /\ ret # NoExpr

\* C15: named expr_match returns true iff the expression is the pattern with
\* each variable name replaced, at all its occurrences, by one sub-expression;
\* on success the map holds exactly one entry per variable name of the
\* pattern, the sub-expression at the first occurrence of the name.
C15_NamedMatchIsConsistent ==
    NamedCall =>
        /\ ret.returned <=>
              \E map \in [Names(call.pattern) -> SubExprs(call.expr)] :
                  Bind(call.pattern, map) = call.expr
        /\ ret.returned =>
              /\ DOMAIN ret.result = Names(call.pattern)
              /\ Bind(call.pattern, ret.result) = call.expr
              /\ \A name \in Names(call.pattern) :
                    ret.result[name] = FirstBinding(call.pattern, call.expr, name)

\* x * (x + y) has matched a * (a + b): x = a, y = b
C15_Witness ==
    /\ NamedCall /\ ret.returned
    /\ call.pattern = Bin_make("Mul", Variable_make(IntT(32), "x"),
                               Bin_make("Add", Variable_make(IntT(32), "x"),
                                               Variable_make(IntT(32), "y")))
    /\ DOMAIN ret.result = {"x", "y"}
    /\ ret.result["x"] = Variable_make(IntT(32), "a")
    /\ ret.result["y"] = Variable_make(IntT(32), "b")

Realized == call.fn = "select_by_id" /\ ret # NoExpr

\* the value the checks of the test expect of result(x, c): x, 456, 789, 789
Expected(at_x, at_c) ==
    CASE at_c = 0 -> at_x
      [] at_c = 1 -> second
      [] at_c \in {2, 3} -> third

\* the values of the test and a point of its realization
TestCase ==
    /\ call.values = <<VarX, Literal(second), Literal(third)>>
    /\ call.c < channels

Negated == Called /\ last.rule \in NegateRules

\* a zero constant: an immediate of value 0, or a Broadcast of one
ZeroConstant(e) ==
    \/ e.node_type \in ImmKinds /\ e.value = 0
    \/ e.node_type = "Broadcast" /\ e.value.node_type \in ImmKinds /\ e.value.value = 0

\* the match of the operand pattern of -a on the right operand of the root
RightMatch == match(last.rule.before.a, instance.b, {}, MatcherState)

\* C21: NegateOp(a) matches e iff e is a Sub whose left operand is a zero
\* constant and whose right operand matches a; on success the state holds
\* exactly the bindings a made on the right operand.
C21_NegateMatchesSubFromZero ==
    Negated =>
        /\ last.matched <=>
              /\ instance.node_type = "Sub"
              /\ ZeroConstant(instance.a)
              /\ RightMatch.ok
        /\ last.matched => state = RightMatch.state

\* -(x + y) has matched 0 - (a + 3): x is a and y is 3, the nodes of the root
C21_Witness ==
    /\ Negated /\ last.matched
    /\ last.rule.before = NegateOp(BinOp("Add", x, y))
    /\ instance.a = Place(Zero, 2)
    /\ get_binding(state, 0) = instance.b.a
    /\ get_binding(state, 1) = instance.b.b
    /\ instance.b.b.node_type = "IntImm"

\* a rule whose predicate is bind(c2, c0 op c1) has matched
Bound == Called /\ last.matched /\ last.rule \in BindRules

\* the fold of the operand of the bind, made from the state of the match
BoundFold == make_folded_const(last.rule.pred.a, MatchState)

\* C22: BindOp<i>(a) as a predicate stores the folded value of a with its
\* folded type, flags included, in constant slot i, and evaluates to 1 of type
\* uint-1 with lanes 1 whatever a folds to: the rule fires, and the
\* WildConst<i> of the After, made or folded, reads the stored constant: a
\* sentinel when the type is flagged, that constant otherwise.
C22_BindStoresFoldAndIsTrue ==
    Bound =>
        /\ get_bound_const(state, 2) = [val |-> BoundFold.val, ty |-> BoundFold.ty]
        /\ last.pred = [val |-> 1, ty |-> Type("uint", 1, 1)]
        /\ last.fired
        /\ make_folded_const(c2, state).val = BoundFold.val
        /\ make_folded_const(c2, state).ty = BoundFold.ty
        /\ IF IsPoisoned(BoundFold.ty)
           THEN /\ result.node_type = "Call"
                /\ result.name = IF Indeterminate(BoundFold.ty) THEN "indeterminate_expression"
                                 ELSE "signed_integer_overflow"
           ELSE result = make_const(BoundFold.ty, BoundFold.val)

\* bind(c2, c0 * c1) on INT32_MAX * 3: the stored type carries OVERFLOW, the
\* predicate is a clean true, and c2 is made as a sentinel
C22_Witness ==
    /\ Bound /\ last.rule.after = c2 /\ instance.node_type = "Mul"
    /\ instance.type = IntT(32) /\ OperandA = MaxVal(32) /\ OperandB = 3
    /\ Overflowed(get_bound_const(state, 2).ty)
    /\ last.pred.ty.lanes = 1
    /\ last.fired
    /\ result.node_type = "Call"

\* the node e with the ids of its sentinels set to zero
RECURSIVE Unnumbered(_)
Unnumbered(e) ==
    CASE e.node_type \in BinKinds \cup CmpKinds ->
            [e EXCEPT !.a = Unnumbered(e.a), !.b = Unnumbered(e.b)]
      [] e.node_type = "Broadcast" -> [e EXCEPT !.value = Unnumbered(e.value)]
      [] e.node_type = "Call" /\ e.name \in SentinelNames ->
            [e EXCEPT !.args = <<IntImm_make(IntT(32), 0)>>]
      [] OTHER -> e

\* the rule r tried alone on a Rewriter just constructed on the root
Alone(r) == Apply(r, FALSE, instance, NoExpr, MatcherState, 0)

\* slot k of the match state (k for bound_const[k], k + 16 for bindings[k])
Slot(st, k) ==
    IF k >= 16 THEN [node |-> st.bindings[k - 16], val |-> 0, ty |-> NoType]
    ELSE [node |-> NoExpr, val |-> st.bound_const[k], ty |-> st.bound_const_type[k]]

\* C23: the match state is never cleared: after a call every slot the call
\* did not write holds what it held before the call; and yet every call in a
\* sequence of calls on one Rewriter matches and fires exactly as its rule
\* does alone on a Rewriter just constructed, writes the same values, and when
\* it fires yields the same result up to the ids of the sentinels.
C23_StaleStateIsNeverRead ==
    [][last'.n = last.n + 1 =>
          /\ last'.matched = Alone(last'.rule).matched
          /\ last'.fired = Alone(last'.rule).fired
          /\ last'.fired => Unnumbered(result') = Unnumbered(Alone(last'.rule).result)
          /\ \A k \in Slots \cup {i + 16 : i \in Slots} :
                Slot(state', k) = IF k \in Alone(last'.rule).state.written
                                  THEN Slot(Alone(last'.rule).state, k)
                                  ELSE Slot(state, k)]_vars

\* x + y has been tried and then y + x -> x, which fired on a + b: the slots
\* hold the new bindings, and c0, which the rule does not bind, is not written
C23_Witness ==
    /\ last.n = 2 /\ last.fired
    /\ last.rule = Rule(BinOp("Add", y, x), x)
    /\ instance.a.node_type = "Variable" /\ instance.b.node_type = "Variable"
    /\ instance.a.name # instance.b.name
    /\ result = instance.b
    /\ get_binding(state, 1) = instance.a
    /\ state.written = {16, 17}

\* the match of the rule of the call being made, on the state the call finds
StepMatch == match(last'.rule.before, instance, {}, state)

\* the fold of its predicate on the state the match has left
StepFold == make_folded_const(last'.rule.pred, StepMatch.state)

\* what after.make yields on the state the predicate has left
StepMake == make(last'.rule.after, StepFold.state, counter)

\* C24: in a call with a predicate the steps are match, predicate, emit.  When
\* the match fails the predicate is not folded (it writes no slot: the state is
\* as the match left it) and nothing is made; when the match succeeds the
\* predicate is folded on the state the match left; when the predicate fails
\* nothing is made (result and the sentinel counter are as before); when it
\* passes the result is made on the state the predicate left.
C24_MatchThenPredicateThenEmit ==
    [][last'.kind \in {"pattern_pred", "expr_pred"} =>
          /\ last'.matched = StepMatch.ok
          /\ ~last'.matched =>
                /\ state' = StepMatch.state
                /\ last'.pred.ty = NoType
                /\ ~last'.fired
          /\ last'.matched =>
                /\ state' = StepFold.state
                /\ last'.pred = [val |-> StepFold.val, ty |-> StepFold.ty]
          /\ ~last'.fired => counter' = counter /\ result' = result
          /\ (last'.fired /\ last'.kind = "pattern_pred") =>
                counter' = StepMake.counter /\ result' = StepMake.e
          /\ (last'.fired /\ last'.kind = "expr_pred") =>
                counter' = counter /\ result' = last'.rule.after]_vars

\* c0 * c1 -> fold(c0 * c1) when c0 * c1 >= 0 on a product that overflows: the
\* pattern matched, the predicate folded to a poisoned value and the call
\* returned false; making the result would have drawn a sentinel, and none
\* has been drawn
C24_Witness ==
    /\ last.n = 1 /\ last.kind = "pattern_pred"
    /\ last.matched /\ ~last.fired
    /\ Overflowed(last.pred.ty)
    /\ make(last.rule.after, state, counter).counter = counter + 1
    /\ counter = 0 /\ result = NoExpr

\* what the call being made yields when it returns true: the Expr it was
\* given, or the node made from its After on the state it leaves
StepOutput ==
    IF last'.kind \in {"expr", "expr_pred"} THEN last'.rule.after
    ELSE make(last'.rule.after, state', counter).e

\* C25: result is undefined until a call has been made; a call that returns
\* false (the pattern did not match, or the predicate failed) leaves result
\* and the root as they were and draws no sentinel; a call that returns true
\* sets result to its own output and leaves the root as it was.  So result is
\* always the output of the last call that returned true.
C25_FalseReturnChangesNothing ==
    /\ [](last.n = 0 => result = NoExpr)
    /\ [][last'.n = last.n + 1 =>
            /\ instance' = instance
            /\ ~last'.fired => result' = result /\ counter' = counter
            /\ last'.fired => result' = StepOutput /\ result' # NoExpr]_vars

\* a call returned true, and the call after it returned false on a pattern
\* that does not match: result is still the output of the first
C25_Witness ==
    /\ last.n = 2 /\ ~last.fired /\ ~last.matched
    /\ result # NoExpr
    /\ \E r \in PatternRules \cup PatternPredRules :
          Apply(r, FALSE, instance, NoExpr, MatcherState, 0).fired
          /\ Apply(r, FALSE, instance, NoExpr, MatcherState, 0).result = result

\* the last call made a binary or comparison node; WithConst: from a pattern
\* one of whose operands is a Const
MadeBinary == last.fired /\ last.rule.after.p \in {"BinOp", "CmpOp"}
WithConst == last.rule.after.a.p = "Const" \/ last.rule.after.b.p = "Const"

\* the two operands as built, before the node is made
BuiltLeft == make(last.rule.after.a, state, 0).e
BuiltRight == make(last.rule.after.b, state, 0).e

\* w is the scalar s wrapped in a Broadcast of the lane count of the vector v
Wraps(w, s, v) ==
    /\ w.node_type = "Broadcast"
    /\ w.value = s
    /\ w.lanes = v.type.lanes
    /\ w.type = with_lanes(s.type, v.type.lanes)

\* k is the constant n of the type of e: an immediate of e's scalar type, under
\* a Broadcast of e's lane count when e is a vector
ConstantOf(k, n, e) ==
    /\ k.type = e.type
    /\ IF is_vector(e.type)
       THEN k.node_type = "Broadcast" /\ k.lanes = e.type.lanes
            /\ k.value.type = with_lanes(e.type, 1)
            /\ k.value.node_type = (IF e.type.code = "int" THEN "IntImm" ELSE "UIntImm")
            /\ k.value.value = (IF e.type.code = "int" THEN n ELSE n % (2 ^ Width(e.type.bits)))
       ELSE k.node_type = (IF e.type.code = "int" THEN "IntImm" ELSE "UIntImm")
            /\ k.value = (IF e.type.code = "int" THEN n ELSE n % (2 ^ Width(e.type.bits)))

\* C26: a binary or comparison node made from two built operands has operands
\* of equal lane count: of a vector and a scalar, the vector is the operand as
\* built and the scalar is wrapped in a Broadcast of the vector's lane count;
\* two scalars or two vectors are the operands as built; with a Const on one
\* side the other operand is as built and the Const is the constant of its
\* type, scalar or vector.
C26_EmitBroadcastsScalarOperand ==
    MadeBinary =>
        /\ result.node_type = last.rule.after.op
        /\ result.a.type.lanes = result.b.type.lanes
        /\ (~WithConst /\ is_vector(BuiltLeft.type) /\ ~is_vector(BuiltRight.type)) =>
              result.a = BuiltLeft /\ Wraps(result.b, BuiltRight, BuiltLeft)
        /\ (~WithConst /\ ~is_vector(BuiltLeft.type) /\ is_vector(BuiltRight.type)) =>
              Wraps(result.a, BuiltLeft, BuiltRight) /\ result.b = BuiltRight
        /\ (~WithConst /\ is_vector(BuiltLeft.type) = is_vector(BuiltRight.type)) =>
              result.a = BuiltLeft /\ result.b = BuiltRight
        /\ last.rule.after.b.p = "Const" =>
              result.a = BuiltLeft /\ ConstantOf(result.b, last.rule.after.b.val, BuiltLeft)
        /\ (last.rule.after.b.p # "Const" /\ last.rule.after.a.p = "Const") =>
              result.b = BuiltRight /\ ConstantOf(result.a, last.rule.after.a.val, BuiltRight)

\* broadcast(x) + y -> x - y on broadcast(a, n) + ramp(a, 3, n): x is the
\* scalar a, y the ramp, and the result is broadcast(a, n) - ramp(a, 3, n), the
\* Broadcast a new node
C26_Witness ==
    /\ MadeBinary /\ ~WithConst
    /\ last.rule.after = BinOp("Sub", x, y)
    /\ BuiltLeft.node_type = "Variable" /\ BuiltRight.node_type = "Ramp"
    /\ result.a.node_type = "Broadcast" /\ result.a.id = 0
    /\ result.a.lanes = BuiltRight.lanes
    /\ result.b = instance.b

\* the slots the call being made writes, in its match and in its predicate
StepWritten ==
    Apply(last'.rule, FALSE, instance, result, [state EXCEPT !.written = {}], counter).state.written

\* C27: when a call returns true, every slot its After reads has been written
\* by that call, in the match or by a bind of the predicate.
C27_EmitReadsOnlyWrittenSlots ==
    [][(last'.n = last.n + 1 /\ last'.fired) =>
          binds(last'.rule.after) \subseteq StepWritten]_vars

\* c0 % c1 -> c2 when c1 == 0 || bind(c2, c0 / c1), on a % 0, first call on a
\* new Rewriter: the Or stopped at its left operand, the bind did not run, the
\* call returned true and result is made from slot 2, which nothing has written
C27_Witness ==
    /\ last.n = 1 /\ last.fired
    /\ last.rule.before = BinOp("Mod", c0, c1) /\ last.rule.after = c2
    /\ instance.b.value = 0
    /\ 2 \notin state.written
    /\ result = to_expr(state.bound_const[2], state.bound_const_type[2], 0).e
    /\ state.bound_const_type[2] = IntT(32) /\ result.value = 5

\* a signed fold of one operation over the constants of the root: c0 op c1 for
\* the seven arithmetic operations, or -c0
SignedArith ==
    /\ Called /\ last.matched
    /\ last.rule \in {FoldRule(op) : op \in ArithKinds} \cup {Rule(c0, FoldOp(NegateOp(c0)))}
    /\ instance.type.code = "int"

\* C28: a signed fold of Add, Sub, Mul, Div, Mod, Min, Max or Negate over
\* constants in the range of their type either carries a poison flag or has a
\* payload in the range of the type (its own sign-extension from T.bits).
C28_UnflaggedPayloadFitsType ==
    (SignedArith /\ ~IsPoisoned(Folded.ty)) =>
        /\ MinVal(Bits) <= AsI64(Folded.val)
        /\ AsI64(Folded.val) <= MaxVal(Bits)

\* the most negative int32 divided by -1: both operands in range, no flag, and
\* the payload is 2^31, one more than the largest int32
C28_Witness ==
    /\ SignedArith /\ last.rule = FoldRule("Div")
    /\ Bits = 32 /\ OperandA = MinVal(32) /\ OperandB = -1
    /\ ~IsPoisoned(Folded.ty)
    /\ AsI64(Folded.val) = MaxVal(32) + 1

\* a fold of c0 and c1 by one binary operation or comparison has been made
MixedFold == last.matched /\ last.rule \in MixedFoldRules

\* the lane counts of the two operands and of the fold, the flags masked off
LanesA == ClearFlags(get_bound_const(state, 0).ty).lanes
LanesB == ClearFlags(get_bound_const(state, 1).ty).lanes
LanesFolded == ClearFlags(Folded.ty).lanes
LanesMax == IF LanesA < LanesB THEN LanesB ELSE LanesA

\* C29: a binary or comparison fold of operands of m and n lanes, m = n or one
\* of them 1, has max(m, n) lanes, and the constant emitted is a scalar or a
\* Broadcast of that many lanes.
C29_FoldLanesAreMax ==
    (MixedFold /\ (LanesA = LanesB \/ LanesA = 1 \/ LanesB = 1)) =>
        /\ LanesFolded = LanesMax
        /\ result.type.lanes = LanesMax
        /\ IF LanesMax = 1 THEN result.node_type \in ImmKinds
           ELSE result.node_type = "Broadcast" /\ result.lanes = LanesMax

\* broadcast(c0) + c1 -> fold(c0 + c1) on broadcast(3, 2) + broadcast(3, 2):
\* c0 is the scalar 3, c1 has 2 lanes, and the fold has 1 | 2 = 3 lanes: the
\* result is 6 under a Broadcast of 3 lanes
C29_Witness ==
    /\ MixedFold /\ last.fired
    /\ LanesA = 1 /\ LanesB = 2
    /\ LanesFolded = 3
    /\ result.node_type = "Broadcast" /\ result.lanes = 3
    /\ instance.type.lanes = 2

\* the pattern p alone matches the node e
MatchesAlone(p, e) == match(p, e, {}, MatcherState).ok

\* C30: a pattern written n op p, the int on the left, has Const(n) as its
\* left child and p as its right child, and matches a node iff the node is an
\* op, Const(n) matches its left operand and p its right operand; written
\* p op n it has p on the left and Const(n) on the right.
C30_IntOnTheLeftStaysLeft ==
    /\ call.fn = "int_left" =>
          /\ last.rule.before.a = Const(call.n) /\ last.rule.before.b = call.p
          /\ last.matched <=>
                /\ instance.node_type = call.op
                /\ MatchesAlone(Const(call.n), instance.a)
                /\ MatchesAlone(call.p, instance.b)
    /\ call.fn = "int_right" =>
          /\ last.rule.before.a = call.p /\ last.rule.before.b = Const(call.n)
          /\ last.matched <=>
                /\ instance.node_type = call.op
                /\ MatchesAlone(call.p, instance.a)
                /\ MatchesAlone(Const(call.n), instance.b)

\* 1 || x tried on a || 1: the pattern built is x || 1, which matches though
\* the left operand of the node is not the constant 1
C30_Witness ==
    /\ call = [fn |-> "int_left", op |-> "Or", n |-> 1, p |-> x]
    /\ last.rule.before = BinOp("Or", x, Const(1))
    /\ instance.node_type = "Or"
    /\ instance.a.node_type = "Variable"
    /\ instance.b.node_type = "UIntImm" /\ instance.b.value = 1
    /\ last.matched /\ last.fired
====
